---------------------------- MODULE Spec2Model ----------------------------
(***************************************************************************)
(* A model of the FBO nightly feed loader (FBONightly): the tag-line       *)
(* lexer, the record splitter, the record field assembler with its         *)
(* cleanup, and the insert-or-ignore load pipeline with its activity log.  *)
(*                                                                         *)
(* Text is modelled as a sequence of one-character strings, so that the    *)
(* lexer, the splitter and the hash join work on characters as the code    *)
(* does.  A dict is modelled as a sequence of <<key, value>> pairs in      *)
(* insertion order, since the content hash is taken in that order.         *)
(***************************************************************************)
EXTENDS Integers, Sequences, FiniteSets, TLC

VARIABLES
    input,      \* the argument of the pure function a specification applies
    output,     \* its result, NotCalled before the call
    db,         \* the class of the database object the pipeline was given
    disk,       \* the data directory: file name -> lines of the feed file
    tables,     \* the record-type tables: table name -> rows in rowid order
    log,        \* the activity log table, in rowid order
    now,        \* the clock that stamps the log entries
    last        \* what the last pipeline operation did (its return and trace)

vars == <<input, output, db, disk, tables, log, now, last>>

NotCalled == [exc |-> "not called"]

(***************************************************************************)
(* Bounds of the model.                                                    *)
(***************************************************************************)
MaxLineLen == 6
MaxLines == 5
MaxOps == 3

(***************************************************************************)
(* Text helpers: Python's str methods on sequences of characters.          *)
(***************************************************************************)
startswith(s, p) ==
    /\ Len(s) >= Len(p)
    /\ SubSeq(s, 1, Len(p)) = p

endswith(s, p) ==
    /\ Len(s) >= Len(p)
    /\ SubSeq(s, Len(s) - Len(p) + 1, Len(s)) = p

Contains(s, c) == \E i \in 1..Len(s) : s[i] = c

FirstIndex(s, c) == CHOOSE i \in 1..Len(s) :
                        /\ s[i] = c
                        /\ \A j \in 1..(i - 1) : s[j] # c

\* s.split(c, 1): at most one split, at the first occurrence of c.
split1(s, c) ==
    IF Contains(s, c)
    THEN <<SubSeq(s, 1, FirstIndex(s, c) - 1),
           SubSeq(s, FirstIndex(s, c) + 1, Len(s))>>
    ELSE <<s>>

Whitespace == {" ", "\r", "\t"}

\* s.strip() == "": the line holds nothing but whitespace.
IsBlank(s) == \A i \in 1..Len(s) : s[i] \in Whitespace

LowerOf ==
       ("A" :> "a") @@ ("B" :> "b") @@ ("C" :> "c") @@ ("D" :> "d") @@ ("E" :> "e") @@ ("F" :> "f")
    @@ ("G" :> "g") @@ ("H" :> "h") @@ ("I" :> "i") @@ ("J" :> "j") @@ ("K" :> "k") @@ ("L" :> "l")
    @@ ("M" :> "m") @@ ("N" :> "n") @@ ("O" :> "o") @@ ("P" :> "p") @@ ("Q" :> "q") @@ ("R" :> "r")
    @@ ("S" :> "s") @@ ("T" :> "t") @@ ("U" :> "u") @@ ("V" :> "v") @@ ("W" :> "w") @@ ("X" :> "x")
    @@ ("Y" :> "y") @@ ("Z" :> "z")

LowerChar(c) == IF c \in DOMAIN LowerOf THEN LowerOf[c] ELSE c

\* s.lower()
lower(s) == [i \in 1..Len(s) |-> LowerChar(s[i])]

\* A Python variable that holds None or a string: None is <<>> and the
\* string s is <<s>>.
None == <<>>
Some(s) == <<s>>

(***************************************************************************)
(* The tag-line lexer.                                                     *)
(***************************************************************************)
ParseError == [exc |-> "ParseError", tag |-> <<>>, val |-> <<>>]

\* A lexer that cuts at the last '>' of the line and keeps the attributes.
parse_line_greedy(line) ==
    IF startswith(line, <<"<">>) /\ Contains(line, ">")
    THEN LET k == CHOOSE i \in 1..Len(line) :
                      /\ line[i] = ">"
                      /\ \A j \in (i + 1)..Len(line) : line[j] # ">"
         IN  [exc |-> "none",
              tag |-> SubSeq(line, 2, k - 1),
              val |-> SubSeq(line, k + 1, Len(line))]
    ELSE ParseError

parse_line(line) ==
    IF startswith(line, <<"<">>) /\ Contains(line, ">")
    THEN LET parts == split1(line, ">")
             p0 == IF Contains(parts[1], " ")
                   THEN split1(parts[1], " ")[1]
                   ELSE parts[1]
         IN  [exc |-> "none", tag |-> Tail(p0), val |-> parts[2]]
    ELSE ParseError

(***************************************************************************)
(* Python evaluates an argument once, before the call.  Bind(x, F) is F at  *)
(* the value of x, with x evaluated once.                                  *)
(***************************************************************************)
Bind(x, F(_)) == CHOOSE y \in {F(v) : v \in {x}} : TRUE

(***************************************************************************)
(* Dicts in insertion order: a sequence of <<key, value>> pairs with no    *)
(* key twice.                                                              *)
(***************************************************************************)
Keys(d) == {d[i][1] : i \in 1..Len(d)}

DictHas(d, k) == \E i \in 1..Len(d) : d[i][1] = k

DictGet(d, k) == d[CHOOSE i \in 1..Len(d) : d[i][1] = k][2]

\* An assignment that adds the new value to the end of the value a present
\* key has.
DictSet_joined(d, k, v) ==
    IF DictHas(d, k)
    THEN [i \in 1..Len(d) |-> IF d[i][1] = k THEN <<k, d[i][2] \o v>> ELSE d[i]]
    ELSE Append(d, <<k, v>>)

\* d[k] = v: a present key keeps its place, a new key goes last.
DictSet(d, k, v) ==
    IF DictHas(d, k)
    THEN [i \in 1..Len(d) |-> IF d[i][1] = k THEN <<k, v>> ELSE d[i]]
    ELSE Append(d, <<k, v>>)

\* d.pop(k), for a present key.
DictPop(d, k) ==
    LET i == CHOOSE j \in 1..Len(d) : d[j][1] = k
    IN  SubSeq(d, 1, i - 1) \o SubSeq(d, i + 1, Len(d))

\* The values in insertion order.
Values(d) == [i \in 1..Len(d) |-> d[i][2]]

(***************************************************************************)
(* int() of a string and datetime.date.                                    *)
(***************************************************************************)
DigitVal ==
       ("0" :> 0) @@ ("1" :> 1) @@ ("2" :> 2) @@ ("3" :> 3) @@ ("4" :> 4)
    @@ ("5" :> 5) @@ ("6" :> 6) @@ ("7" :> 7) @@ ("8" :> 8) @@ ("9" :> 9)

DigitChar == [n \in 0..9 |-> CHOOSE c \in DOMAIN DigitVal : DigitVal[c] = n]

RECURSIVE lstrip(_)
lstrip(s) == IF s # <<>> /\ s[1] \in Whitespace THEN lstrip(Tail(s)) ELSE s

RECURSIVE rstrip(_)
rstrip(s) == IF s # <<>> /\ s[Len(s)] \in Whitespace
             THEN rstrip(SubSeq(s, 1, Len(s) - 1)) ELSE s

strip(s) == rstrip(lstrip(s))

RECURSIVE DigitsValue(_)
DigitsValue(s) == IF s = <<>> THEN 0
                  ELSE 10 * DigitsValue(SubSeq(s, 1, Len(s) - 1)) + DigitVal[s[Len(s)]]

\* int(s): surrounding whitespace and one sign are accepted; anything but
\* digits after that is a ValueError.
int(s) ==
    LET t == strip(s)
        signed == t # <<>> /\ t[1] \in {"-", "+"}
        digits == IF signed THEN Tail(t) ELSE t
    IN  IF digits # <<>> /\ \A i \in 1..Len(digits) : digits[i] \in DOMAIN DigitVal
        THEN [exc |-> "none",
              n |-> IF signed /\ t[1] = "-" THEN 0 - DigitsValue(digits)
                    ELSE DigitsValue(digits)]
        ELSE [exc |-> "ValueError", n |-> 0]

\* s[a:b] with 0 <= a <= b.
Slice(s, a, b) == SubSeq(s, a + 1, IF b < Len(s) THEN b ELSE Len(s))

IsLeap(y) == (y % 4 = 0 /\ y % 100 # 0) \/ y % 400 = 0

DaysInMonth(y, m) ==
    IF m = 2 THEN (IF IsLeap(y) THEN 29 ELSE 28)
    ELSE IF m \in {4, 6, 9, 11} THEN 30 ELSE 31

DateError == [exc |-> "ValueError", year |-> 0, month |-> 0, day |-> 0]

\* datetime.date(year, month, day)
date(year, month, day) ==
    IF /\ year \in 1..9999
       /\ month \in 1..12
       /\ day \in 1..DaysInMonth(year, month)
    THEN [exc |-> "none", year |-> year, month |-> month, day |-> day]
    ELSE DateError

Pad(n, width) == [i \in 1..width |-> DigitChar[(n \div (10 ^ (width - i))) % 10]]

\* str(d) of a datetime.date, which is also the text sqlite3 stores for it.
isoformat(d) == Pad(d.year, 4) \o <<"-">> \o Pad(d.month, 2) \o <<"-">> \o Pad(d.day, 2)

\* A two-digit-year rule without the 1900s: every year below 100 gets 2000.
century_all2000(year) ==
    IF year < 100 THEN year + 2000 ELSE year

\* A two-digit-year rule that puts 90..99 in the 1800s.
century_1800s(year) ==
    IF year < 90 THEN year + 2000
    ELSE IF year <= 99 THEN year + 1800
    ELSE year

\* The year fix_date makes of int(year).
century(year) ==
    IF year < 90 THEN year + 2000
    ELSE IF year <= 99 THEN year + 1900
    ELSE year

fix_date(d, year) ==
    LET y == int(year)
        mo == int(Slice(d, 0, 2))
        da == int(Slice(d, 2, 4))
    IN  IF y.exc # "none" \/ mo.exc # "none" \/ da.exc # "none"
        THEN DateError
        ELSE date(century(y.n), mo.n, da.n)

(***************************************************************************)
(* The record field assembler: cleanup.                                    *)
(***************************************************************************)
k_link == <<"l", "i", "n", "k">>
k_respdate == <<"r", "e", "s", "p", "d", "a", "t", "e">>
k_response_date == <<"r", "e", "s", "p", "o", "n", "s", "e", "_", "d", "a", "t", "e">>
k_date == <<"d", "a", "t", "e">>
k_year == <<"y", "e", "a", "r">>
k_desc == <<"d", "e", "s", "c">>
k_url_desc == <<"u", "r", "l", "_", "d", "e", "s", "c">>
k_email_desc == <<"e", "m", "a", "i", "l", "_", "d", "e", "s", "c">>
t_DESC == <<"D", "E", "S", "C">>
t_LINK == <<"L", "I", "N", "K">>
t_EMAIL == <<"E", "M", "A", "I", "L">>

\* The rename_field calls of cleanup, in their order.
Renames == <<
    <<<<"a", "d", "d", "r", "e", "s", "s">>,
      <<"e", "m", "a", "i", "l">>>>,
    <<<<"a", "w", "d", "a", "m", "t">>,
      <<"a", "w", "a", "r", "d", "_", "a", "m", "o", "u", "n", "t">>>>,
    <<<<"a", "w", "d", "d", "a", "t", "e">>,
      <<"a", "w", "a", "r", "d", "_", "d", "a", "t", "e">>>>,
    <<<<"a", "w", "d", "n", "b", "r">>,
      <<"a", "w", "a", "r", "d", "_", "n", "u", "m", "b", "e", "r">>>>,
    <<<<"a", "r", "c", "h", "d", "a", "t", "e">>,
      <<"a", "r", "c", "h", "i", "v", "e", "_", "d", "a", "t", "e">>>>,
    <<<<"c", "l", "a", "s", "s", "c", "o", "d">>,
      <<"c", "l", "a", "s", "s", "_", "c", "o", "d", "e">>>>,
    <<<<"l", "i", "n", "e", "n", "b", "r">>,
      <<"l", "i", "n", "e", "_", "n", "u", "m", "b", "e", "r">>>>,
    <<<<"o", "f", "f", "a", "d", "d">>,
      <<"o", "f", "f", "i", "c", "e", "_", "a", "d", "d", "r", "e", "s", "s">>>>,
    <<<<"p", "o", "p", "c", "o", "u", "n", "t", "r", "y">>,
      <<"p", "o", "p", "_", "c", "o", "u", "n", "t", "r", "y">>>>,
    <<<<"p", "o", "p", "z", "i", "p">>,
      <<"p", "o", "p", "_", "z", "i", "p">>>>,
    <<<<"p", "o", "p", "a", "d", "d", "r", "e", "s", "s">>,
      <<"p", "o", "p", "_", "a", "d", "d", "r", "e", "s", "s">>>>,
    <<<<"s", "o", "l", "n", "b", "r">>,
      <<"s", "o", "l", "i", "c", "i", "t", "a", "t", "i", "o", "n", "_", "n", "u", "m", "b", "e", "r">>>>
>>

\* A rename that gives way to a field already stored under the new name.
rename_field_keep_target(record, from_name, to_name) ==
    IF DictHas(record, from_name)
    THEN IF DictHas(record, to_name) THEN DictPop(record, from_name)
         ELSE DictSet(DictPop(record, from_name), to_name, DictGet(record, from_name))
    ELSE record

rename_field(record, from_name, to_name) ==
    IF DictHas(record, from_name)
    THEN DictSet(DictPop(record, from_name), to_name, DictGet(record, from_name))
    ELSE record

RECURSIVE rename_all(_, _)
rename_all(record, i) ==
    IF i > Len(Renames) THEN record
    ELSE Bind(rename_field(record, Renames[i][1], Renames[i][2]),
              LAMBDA renamed : rename_all(renamed, i + 1))

Raise(e) == [exc |-> e, record |-> <<>>]
Return(record) == [exc |-> "none", record |-> record]

\* record['date'] = fix_date(record['date'], record.pop('year')); a date is
\* held in the map as its ISO text.
compose_date(record) ==
    IF ~DictHas(record, k_date) \/ ~DictHas(record, k_year)
    THEN Raise("KeyError")
    ELSE LET fd == fix_date(DictGet(record, k_date), DictGet(record, k_year))
         IN  IF fd.exc # "none" THEN Raise(fd.exc)
             ELSE Return(DictSet(DictPop(record, k_year), k_date, isoformat(fd)))

cleanup(record) ==
    LET r1 == IF DictHas(record, k_link) THEN DictPop(record, k_link) ELSE record
        rd == IF DictHas(r1, k_respdate)
              THEN fix_date(Slice(DictGet(r1, k_respdate), 0, 4),
                            Slice(DictGet(r1, k_respdate), 4, 6))
              ELSE DateError
    IN  IF DictHas(r1, k_respdate) /\ rd.exc # "none"
        THEN Raise(rd.exc)
        ELSE LET r2 == IF DictHas(r1, k_respdate)
                       THEN DictSet(DictPop(r1, k_respdate), k_response_date,
                                    isoformat(rd))
                       ELSE r1
             IN  Bind(rename_all(r2, 1), LAMBDA renamed : compose_date(renamed))

(***************************************************************************)
(* The record field assembler: parse_nightly.                              *)
(***************************************************************************)
IgnoredTags == {
    <<"a">>,
    <<"b", "r">>,
    <<"d", "i", "v">>,
    <<"e", "m">>,
    <<"h", "1">>,
    <<"h", "2">>,
    <<"h", "3">>,
    <<"h", "4">>,
    <<"h", "5">>,
    <<"h", "r">>,
    <<"h", "t", "m", "l">>,
    <<"l", "a", "b", "e", "l">>,
    <<"o", "l">>,
    <<"p">>,
    <<"s", "p", "a", "n">>,
    <<"s", "t", "r", "o", "n", "g">>,
    <<"t", "a", "b", "l", "e">>,
    <<"t", "b", "o", "d", "y">>,
    <<"u", "l">>
}

\* An ignore list that knows the opening tags only.
is_ignored_tag_opening(tag) == tag \in IgnoredTags

is_ignored_tag(tag) ==
    (IF startswith(tag, <<"/">>) THEN Tail(tag) ELSE tag) \in IgnoredTags

\* A DESC rule that looks at the tag right before the DESC line.
desc_key_previous(prev, prevprev) ==
    IF prev = Some(t_LINK) THEN k_url_desc
    ELSE IF prev = Some(t_EMAIL) THEN k_email_desc
    ELSE k_desc

\* A DESC rule with the two keys the wrong way round.
desc_key_swapped(prev, prevprev) ==
    IF prevprev = Some(t_LINK) THEN k_email_desc
    ELSE IF prevprev = Some(t_EMAIL) THEN k_url_desc
    ELSE k_desc

\* The key a DESC value is stored under.
desc_key(prev, prevprev) ==
    IF prevprev = Some(t_LINK) THEN k_url_desc
    ELSE IF prevprev = Some(t_EMAIL) THEN k_email_desc
    ELSE k_desc

\* An append that lets a line go when there is no field to take it.
append_to_prev_lenient(record, prev, text) ==
    IF prev = None \/ ~DictHas(record, lower(prev[1])) THEN Return(record)
    ELSE Return(DictSet(record, lower(prev[1]),
                        DictGet(record, lower(prev[1])) \o text))

\* An append that puts a line break before the text.
append_to_prev_newline(record, prev, text) ==
    IF prev = None THEN Raise("AttributeError")
    ELSE IF ~DictHas(record, lower(prev[1])) THEN Raise("KeyError")
    ELSE Return(DictSet(record, lower(prev[1]),
                        DictGet(record, lower(prev[1])) \o <<"\n">> \o text))

\* record[prev.lower()] += text
append_to_prev(record, prev, text) ==
    IF prev = None THEN Raise("AttributeError")
    ELSE IF ~DictHas(record, lower(prev[1])) THEN Raise("KeyError")
    ELSE Return(DictSet(record, lower(prev[1]),
                        DictGet(record, lower(prev[1])) \o text))

\* One turn of the loop over the lines of the record: the exception it
\* raised, or the history and the record as the turn left them.
parse_turn(line, record_type, prev, prevprev, record) ==
    LET lx == parse_line(line)
        turned(p, pp, r) == [exc |-> "none", prev |-> p, prevprev |-> pp, record |-> r]
        failed(e) == [exc |-> e, prev |-> prev, prevprev |-> prevprev, record |-> <<>>]
        appended == append_to_prev(record, prev,
                        IF ~endswith(line, <<"\r">>) /\ lx.exc = "none"
                        THEN <<"\n">> \o line ELSE line)
    IN  IF endswith(line, <<"\r">>) \/ lx.exc # "none"
        THEN IF appended.exc # "none" THEN failed(appended.exc)
             ELSE turned(prev, prevprev, appended.record)
        ELSE IF lx.tag = record_type \/ lx.tag = <<"/">> \o record_type
        THEN turned(prev, prevprev, record)
        ELSE IF lx.tag = t_DESC
        THEN IF desc_key(prev, prevprev) # k_desc
             THEN turned(Some(desc_key(prev, prevprev)), prevprev,
                         DictSet(record, desc_key(prev, prevprev), lx.val))
             ELSE turned(Some(lx.tag), prev, DictSet(record, k_desc, lx.val))
        ELSE IF is_ignored_tag(lx.tag)
        THEN IF appended.exc # "none" THEN failed(appended.exc)
             ELSE turned(prev, prevprev, appended.record)
        ELSE turned(Some(lx.tag), prev, DictSet(record, lower(lx.tag), lx.val))

RECURSIVE parse_loop(_, _, _, _, _, _)
\* The loop from line i on.
parse_step(lines, i, record_type, prev, prevprev, record) ==
    IF i > Len(lines) THEN Return(record)
    ELSE Bind(parse_turn(lines[i], record_type, prev, prevprev, record),
              LAMBDA t : IF t.exc # "none" THEN Raise(t.exc)
                         ELSE parse_loop(lines, i + 1, record_type, t.prev,
                                         t.prevprev, t.record))

parse_loop(lines, i, record_type, prev, prevprev, record) ==
    Bind(<<i, prev, prevprev, record>>,
         LAMBDA a : parse_step(lines, a[1], record_type, a[2], a[3], a[4]))

\* nightly is the list of the record's lines; record_type is the upper-cased
\* class name.
parse_nightly(nightly, record_type) ==
    Bind(parse_loop(nightly, 1, record_type, None, None, <<>>),
         LAMBDA parsed : IF parsed.exc # "none" THEN parsed
                         ELSE cleanup(parsed.record))

(***************************************************************************)
(* The record schema registry: one class per record type, looked up by the *)
(* lower-cased tag.  The table of a class holds its fields, sha256 and     *)
(* nightly_id.                                                             *)
(***************************************************************************)
UpperChar(c) ==
    IF \E u \in DOMAIN LowerOf : LowerOf[u] = c
    THEN CHOOSE u \in DOMAIN LowerOf : LowerOf[u] = c
    ELSE c

\* s.upper()
upper(s) == [i \in 1..Len(s) |-> UpperChar(s[i])]

k_sha256 == <<"s", "h", "a", "2", "5", "6">>
k_nightly_id == <<"n", "i", "g", "h", "t", "l", "y", "_", "i", "d">>

f_agency == <<"a", "g", "e", "n", "c", "y">>
f_archive_date == <<"a", "r", "c", "h", "i", "v", "e", "_", "d", "a", "t", "e">>
f_award_amount == <<"a", "w", "a", "r", "d", "_", "a", "m", "o", "u", "n", "t">>
f_award_date == <<"a", "w", "a", "r", "d", "_", "d", "a", "t", "e">>
f_award_number == <<"a", "w", "a", "r", "d", "_", "n", "u", "m", "b", "e", "r">>
f_awardee == <<"a", "w", "a", "r", "d", "e", "e">>
f_class_code == <<"c", "l", "a", "s", "s", "_", "c", "o", "d", "e">>
f_contact == <<"c", "o", "n", "t", "a", "c", "t">>
f_correction == <<"c", "o", "r", "r", "e", "c", "t", "i", "o", "n">>
f_date == <<"d", "a", "t", "e">>
f_desc == <<"d", "e", "s", "c">>
f_donbr == <<"d", "o", "n", "b", "r">>
f_email == <<"e", "m", "a", "i", "l">>
f_email_desc == <<"e", "m", "a", "i", "l", "_", "d", "e", "s", "c">>
f_foja == <<"f", "o", "j", "a">>
f_line_number == <<"l", "i", "n", "e", "_", "n", "u", "m", "b", "e", "r">>
f_location == <<"l", "o", "c", "a", "t", "i", "o", "n">>
f_modnbr == <<"m", "o", "d", "n", "b", "r">>
f_naics == <<"n", "a", "i", "c", "s">>
f_ntype == <<"n", "t", "y", "p", "e">>
f_office == <<"o", "f", "f", "i", "c", "e">>
f_office_address == <<"o", "f", "f", "i", "c", "e", "_", "a", "d", "d", "r", "e", "s", "s">>
f_pop_address == <<"p", "o", "p", "_", "a", "d", "d", "r", "e", "s", "s">>
f_pop_country == <<"p", "o", "p", "_", "c", "o", "u", "n", "t", "r", "y">>
f_pop_zip == <<"p", "o", "p", "_", "z", "i", "p">>
f_response_date == <<"r", "e", "s", "p", "o", "n", "s", "e", "_", "d", "a", "t", "e">>
f_setaside == <<"s", "e", "t", "a", "s", "i", "d", "e">>
f_solicitation_number == <<"s", "o", "l", "i", "c", "i", "t", "a", "t", "i", "o", "n", "_", "n", "u", "m", "b", "e", "r">>
f_stauth == <<"s", "t", "a", "u", "t", "h">>
f_subject == <<"s", "u", "b", "j", "e", "c", "t">>
f_url == <<"u", "r", "l">>
f_url_desc == <<"u", "r", "l", "_", "d", "e", "s", "c">>
f_zip == <<"z", "i", "p">>

\* The fields of Amdcss, Mod.
Fields_Amdcss == {
    f_date, f_solicitation_number, f_response_date, f_setaside,
    f_agency, f_office, f_location, f_office_address, f_zip,
    f_class_code, f_naics, f_subject, f_desc, f_url, f_url_desc,
    f_email, f_email_desc, f_archive_date, f_contact, f_pop_address,
    f_pop_zip, f_pop_country, f_ntype
}

\* The fields of Archive, Fairopp, Fstd, Unarchive.
Fields_Archive == {
    f_date, f_solicitation_number, f_award_number, f_award_amount,
    f_award_date, f_response_date, f_setaside, f_agency, f_office,
    f_location, f_office_address, f_zip, f_class_code, f_naics,
    f_subject, f_desc, f_url, f_url_desc, f_email, f_email_desc,
    f_archive_date, f_contact, f_pop_address, f_pop_zip, f_pop_country,
    f_ntype, f_foja, f_donbr, f_correction, f_modnbr
}

\* The fields of Award.
Fields_Award == {
    f_date, f_solicitation_number, f_award_number, f_award_amount,
    f_award_date, f_awardee, f_line_number, f_response_date, f_setaside,
    f_agency, f_office, f_location, f_office_address, f_zip,
    f_class_code, f_naics, f_subject, f_desc, f_url, f_url_desc,
    f_email, f_email_desc, f_archive_date, f_contact, f_pop_address,
    f_pop_zip, f_pop_country, f_ntype, f_correction
}

\* The fields of Combine, Presol, SNote, SSale, Srcsgt.
Fields_Combine == {
    f_date, f_solicitation_number, f_response_date, f_setaside,
    f_agency, f_office, f_location, f_office_address, f_zip,
    f_class_code, f_naics, f_subject, f_desc, f_url, f_url_desc,
    f_email, f_email_desc, f_archive_date, f_contact, f_pop_address,
    f_pop_zip, f_pop_country
}

\* The fields of Ja.
Fields_Ja == {
    f_date, f_solicitation_number, f_award_number, f_award_amount,
    f_award_date, f_response_date, f_setaside, f_agency, f_office,
    f_location, f_office_address, f_zip, f_class_code, f_naics,
    f_subject, f_desc, f_url, f_url_desc, f_email, f_email_desc,
    f_archive_date, f_contact, f_pop_address, f_pop_zip, f_pop_country,
    f_ntype, f_stauth, f_correction, f_modnbr
}

\* get_FBOTableEntry_classes_as_dict(): class name, lower-cased -> fields.
FBOTableEntry_classes ==
       (<<"a", "m", "d", "c", "s", "s">> :> Fields_Amdcss)
    @@ (<<"a", "r", "c", "h", "i", "v", "e">> :> Fields_Archive)
    @@ (<<"a", "w", "a", "r", "d">> :> Fields_Award)
    @@ (<<"c", "o", "m", "b", "i", "n", "e">> :> Fields_Combine)
    @@ (<<"f", "a", "i", "r", "o", "p", "p">> :> Fields_Archive)
    @@ (<<"f", "s", "t", "d">> :> Fields_Archive)
    @@ (<<"j", "a">> :> Fields_Ja)
    @@ (<<"m", "o", "d">> :> Fields_Amdcss)
    @@ (<<"p", "r", "e", "s", "o", "l">> :> Fields_Combine)
    @@ (<<"s", "n", "o", "t", "e">> :> Fields_Combine)
    @@ (<<"s", "s", "a", "l", "e">> :> Fields_Combine)
    @@ (<<"s", "r", "c", "s", "g", "t">> :> Fields_Combine)
    @@ (<<"u", "n", "a", "r", "c", "h", "i", "v", "e">> :> Fields_Archive)


\* The columns of the table a class's migration creates.
Columns(table) == FBOTableEntry_classes[table] \cup {k_sha256, k_nightly_id}

(***************************************************************************)
(* The database: make_query_dict, write_dict_many_query, log, dedupe.      *)
(* A row is [rowid, cols]: cols maps the columns that are not NULL to      *)
(* their values.                                                           *)
(***************************************************************************)
RECURSIVE join(_, _)
\* sep.join(strs)
join(sep, strs) ==
    IF strs = <<>> THEN <<>>
    ELSE IF Len(strs) = 1 THEN strs[1]
    ELSE strs[1] \o sep \o join(sep, Tail(strs))

\* hashlib.sha256(text).hexdigest(): the digest stands for its text, no two
\* texts share one.
sha256(text) == <<"#">> \o text

\* A hash over the values in an order that the set of fields fixes, whatever
\* the order they were inserted in.
make_query_dict_any_order(table, dic) ==
    LET pairs == {dic[i] : i \in 1..Len(dic)}
        canon == CHOOSE s \in [1..Len(dic) -> pairs] :
                     \A i, j \in 1..Len(dic) : i # j => s[i] # s[j]
    IN  Bind(DictSet(dic, k_sha256, sha256(join(<<"|">>, Values(canon)))),
             LAMBDA d : [query |-> [table |-> table,
                                    columns |-> [i \in 1..Len(d) |-> d[i][1]]],
                         dic |-> d])

\* A hash over the values from the last inserted to the first.
make_query_dict_backwards(table, dic) ==
    LET n == Len(dic)
    IN  Bind(DictSet(dic, k_sha256,
                     sha256(join(<<"|">>, [i \in 1..n |-> dic[n + 1 - i][2]]))),
             LAMBDA d : [query |-> [table |-> table,
                                    columns |-> [i \in 1..Len(d) |-> d[i][1]]],
                         dic |-> d])

\* The insert statement is its table and its column list.
make_query_dict(table, dic) ==
    Bind(DictSet(dic, k_sha256, sha256(join(<<"|">>, Values(dic)))),
         LAMBDA d : [query |-> [table |-> table,
                                columns |-> [i \in 1..Len(d) |-> d[i][1]]],
                     dic |-> d])

RowOf(rowid, dic) == [rowid |-> rowid, cols |-> [k \in Keys(dic) |-> DictGet(dic, k)]]

NextRowid(rows) ==
    IF rows = <<>> THEN 1 ELSE rows[Len(rows)].rowid + 1

\* A UNIQUE check that looks at the newest row only.
Conflicts_newest(rows, dic) ==
    /\ rows # <<>>
    /\ k_sha256 \in DOMAIN rows[Len(rows)].cols
    /\ rows[Len(rows)].cols[k_sha256] = DictGet(dic, k_sha256)

\* UNIQUE (sha256): a row with the same sha256 is in the table.
Conflicts(rows, dic) ==
    \E i \in 1..Len(rows) :
        /\ k_sha256 \in DOMAIN rows[i].cols
        /\ rows[i].cols[k_sha256] = DictGet(dic, k_sha256)

\* A plain INSERT on a table without the UNIQUE constraint.
insert_always(rows, dic) == Append(rows, RowOf(NextRowid(rows), dic))

\* INSERT OR IGNORE of one dict.
insert_or_ignore(rows, dic) ==
    IF Conflicts(rows, dic) THEN rows
    ELSE Append(rows, RowOf(NextRowid(rows), dic))

\* The statement run once for each dict, up to the first dict that has no
\* value for one of the statement's columns; the rows inserted before it
\* stay in the connection's open transaction.
RECURSIVE executemany(_, _, _, _)
executemany(rows, columns, dics, i) ==
    IF i > Len(dics) THEN [exc |-> "none", rows |-> rows]
    ELSE IF \E c \in 1..Len(columns) : ~DictHas(dics[i], columns[c])
    THEN [exc |-> "ProgrammingError", rows |-> rows]
    ELSE Bind(insert_or_ignore(rows, dics[i]),
              LAMBDA inserted : executemany(inserted, columns, dics, i + 1))

\* executemany and commit; the statement does not compile when its table
\* or one of its columns does not exist.  tables is what the connection
\* sees afterwards, commit whether the call reached its commit.
write_dict_many_query(tbls, query, dics) ==
    IF \/ query.table \notin DOMAIN tbls
       \/ \E i \in 1..Len(query.columns) : query.columns[i] \notin Columns(query.table)
    THEN [exc |-> "OperationalError", tables |-> tbls, commit |-> FALSE]
    ELSE Bind(executemany(tbls[query.table], query.columns, dics, 1),
              LAMBDA run : [exc |-> run.exc,
                            tables |-> [tbls EXCEPT ![query.table] = run.rows],
                            commit |-> run.exc = "none"])

\* An UPDATE of the entry that holds the message, when there is one.
log_upsert(entries, clock, datatype, message) ==
    IF \E i \in 1..Len(entries) : entries[i].msg = message
    THEN [i \in 1..Len(entries) |->
            IF entries[i].msg = message
            THEN [datetime |-> clock, datatype |-> datatype, msg |-> message]
            ELSE entries[i]]
    ELSE Append(entries, [datetime |-> clock, datatype |-> datatype, msg |-> message])

\* DBConn.log: INSERT INTO log VALUES (now, datatype, message), and commit.
log_insert(entries, clock, datatype, message) ==
    Append(entries, [datetime |-> clock, datatype |-> datatype, msg |-> message])

s_Parsed == <<"P", "a", "r", "s", "e", "d", " ">>
s_Downloaded == <<"D", "o", "w", "n", "l", "o", "a", "d", "e", "d", " ">>
s_nightly == <<"n", "i", "g", "h", "t", "l", "y">>

\* The datetime of the last log entry with the message, or None.
last_logged(entries, message) ==
    LET hits == {i \in 1..Len(entries) : entries[i].msg = message}
    IN  IF hits = {} THEN None
        ELSE Some(entries[CHOOSE i \in hits : \A j \in hits : j <= i].datetime)

get_parsed_datetime(entries, fname) == last_logged(entries, s_Parsed \o fname)

get_download_datetime(entries, fname) == last_logged(entries, s_Downloaded \o fname)

\* A sweep that deletes of every group of equal rows the oldest copy only.
dedupe_oldest_copy(rows) ==
    LET IsDup(i) == \E j \in 1..Len(rows) : j # i /\ rows[j].cols = rows[i].cols
        Oldest(i) == \A j \in 1..Len(rows) :
                         rows[j].cols = rows[i].cols => rows[j].rowid >= rows[i].rowid
        keep(r) == \E i \in 1..Len(rows) : rows[i] = r /\ ~(IsDup(i) /\ Oldest(i))
    IN  SelectSeq(rows, keep)

\* A sweep that keeps the first row of every group.
dedupe_keep_first(rows) ==
    LET Kept(i) == \A j \in 1..Len(rows) :
                       rows[j].cols = rows[i].cols => rows[j].rowid >= rows[i].rowid
        keep(r) == \E i \in 1..Len(rows) : rows[i] = r /\ Kept(i)
    IN  SelectSeq(rows, keep)

\* delete from t where rowid not in (select max(rowid) from t group by
\* <all columns>), run when SELECT * holds some row twice.
dedupe(rows) ==
    LET IsDup(i) == \E j \in 1..Len(rows) : j # i /\ rows[j].cols = rows[i].cols
        Kept(i) == \A j \in 1..Len(rows) :
                       rows[j].cols = rows[i].cols => rows[j].rowid <= rows[i].rowid
        keep(r) == \E i \in 1..Len(rows) : rows[i] = r /\ Kept(i)
    IN  IF \E i \in 1..Len(rows) : IsDup(i)
        THEN SelectSeq(rows, keep)
        ELSE rows

(***************************************************************************)
(* The record splitter.                                                    *)
(***************************************************************************)
\* Python's truth value of None-or-string: None and "" are both false.
Truthy(curr) == curr # None /\ curr[1] # <<>>

ClosingLine(type) == <<"<", "/">> \o type \o <<">">>

SplitError == [exc |-> "ParseError", records |-> <<>>]

RECURSIVE split_loop(_, _, _, _, _)
split_loop(lines, i, records, record, curr) ==
    IF i > Len(lines)
    THEN [exc |-> "none", records |-> records]
    ELSE LET line == lines[i] IN
         IF ~Truthy(curr)
         THEN IF IsBlank(line)
              THEN split_loop(lines, i + 1, records, record, curr)
              ELSE LET lx == parse_line(line) IN
                   IF lx.exc # "none"
                   THEN SplitError
                   ELSE split_loop(lines, i + 1, records,
                                   Append(record, line), Some(lx.tag))
         ELSE IF line = ClosingLine(curr[1])
              THEN split_loop(lines, i + 1,
                              Append(records, Append(record, line)), <<>>, None)
              ELSE split_loop(lines, i + 1, records,
                              Append(record, line), curr)

\* A splitter that returns the record it is in when the input ends.
get_nightly_records_flush(lines) ==
    LET RECURSIVE loop(_, _, _, _)
        loop(i, records, record, curr) ==
            IF i > Len(lines)
            THEN [exc |-> "none",
                  records |-> IF Truthy(curr) THEN Append(records, record) ELSE records]
            ELSE IF ~Truthy(curr)
                 THEN IF IsBlank(lines[i]) THEN loop(i + 1, records, record, curr)
                      ELSE IF parse_line(lines[i]).exc # "none" THEN SplitError
                      ELSE loop(i + 1, records, Append(record, lines[i]),
                                Some(parse_line(lines[i]).tag))
                 ELSE IF lines[i] = ClosingLine(curr[1])
                      THEN loop(i + 1, Append(records, Append(record, lines[i])), <<>>, None)
                      ELSE loop(i + 1, records, Append(record, lines[i]), curr)
    IN  loop(1, <<>>, <<>>, None)

\* A splitter that ends a record at its first blank line.
get_nightly_records_blank(lines) ==
    LET RECURSIVE loop(_, _, _)
        loop(i, records, record) ==
            IF i > Len(lines)
            THEN [exc |-> "none", records |-> records]
            ELSE IF IsBlank(lines[i])
                 THEN loop(i + 1,
                           IF record = <<>> THEN records
                           ELSE Append(records, record), <<>>)
                 ELSE IF record = <<>> /\ parse_line(lines[i]).exc # "none"
                      THEN SplitError
                      ELSE loop(i + 1, records, Append(record, lines[i]))
    IN  loop(1, <<>>, <<>>)

\* lines is nightly.split("\n"), the lines of the decoded feed file.
get_nightly_records(lines) == split_loop(lines, 1, <<>>, <<>>, None)

(***************************************************************************)
(* The load engine: etl_from_filename and etl_from_dir.                    *)
(***************************************************************************)
\* A grouping that opens a batch for every record.
add_query_per_record(queries, query, dic) ==
    Append(queries, [query |-> query, records |-> <<dic>>])

add_query(queries, query, dic) ==
    IF \E i \in 1..Len(queries) : queries[i].query = query
    THEN [i \in 1..Len(queries) |->
            IF queries[i].query = query
            THEN [queries[i] EXCEPT !.records = Append(@, dic)]
            ELSE queries[i]]
    ELSE Append(queries, [query |-> query, records |-> <<dic>>])

\* The loop over the records of a file: the unhandled tags warned about and
\* the queries with their dicts, or the first exception.
RECURSIVE build_queries(_, _, _, _)
build_queries(records, i, unhandled, queries) ==
    IF i > Len(records)
    THEN [exc |-> "none", unhandled |-> unhandled, queries |-> queries]
    ELSE
    LET lx == parse_line(records[i][1])
        stop(exc) == [exc |-> exc, unhandled |-> unhandled, queries |-> queries]
    IN  IF lx.exc # "none" THEN stop("SystemExit")
        ELSE IF lower(lx.tag) \notin DOMAIN FBOTableEntry_classes
        THEN Bind(IF \E j \in 1..Len(unhandled) : unhandled[j] = lx.tag
                  THEN unhandled ELSE Append(unhandled, lx.tag),
                  LAMBDA warned : build_queries(records, i + 1, warned, queries))
        ELSE Bind(parse_nightly(records[i], upper(lx.tag)),
                  LAMBDA parsed :
                      IF parsed.exc # "none" THEN stop(parsed.exc)
                      ELSE Bind(make_query_dict(lower(lx.tag), parsed.record),
                                LAMBDA made :
                      Bind(add_query(queries, made.query, made.dic),
                           LAMBDA added :
                               build_queries(records, i + 1, unhandled, added))))

\* A loop that passes over a batch that failed and goes on with the next.
RECURSIVE write_queries_skip_failed(_, _, _)
write_queries_skip_failed(queries, i, tbls) ==
    IF i > Len(queries) THEN [exc |-> "none", tables |-> tbls]
    ELSE Bind(write_dict_many_query(tbls, queries[i].query, queries[i].records),
              LAMBDA w : write_queries_skip_failed(queries, i + 1, w.tables))

\* The loop over the queries: each is written and committed in turn, up to
\* the first that fails.
RECURSIVE write_queries(_, _, _)
write_queries(queries, i, tbls) ==
    IF i > Len(queries) THEN [exc |-> "none", tables |-> tbls]
    ELSE Bind(write_dict_many_query(tbls, queries[i].query, queries[i].records),
              LAMBDA w : IF w.exc # "none" THEN w
                         ELSE write_queries(queries, i + 1, w.tables))

\* A loader that writes the queries of the records before the one that
\* failed to parse.
load_records_so_far(records, tbls) ==
    Bind(build_queries(records, 1, <<>>, <<>>), LAMBDA built :
        Bind(write_queries(built.queries, 1, tbls), LAMBDA wrote :
            [exc |-> IF built.exc # "none" THEN built.exc ELSE wrote.exc,
             tables |-> wrote.tables,
             unhandled |-> built.unhandled, ret |-> None]))

\* The two loops of etl_from_filename over the records the splitter
\* returned: parse them all, then write the queries.
load_records(records, tbls) ==
    Bind(build_queries(records, 1, <<>>, <<>>), LAMBDA built :
        IF built.exc # "none"
        THEN [exc |-> built.exc, tables |-> tbls, unhandled |-> built.unhandled,
              ret |-> None]
        ELSE Bind(write_queries(built.queries, 1, tbls), LAMBDA wrote :
             [exc |-> wrote.exc, tables |-> wrote.tables,
              unhandled |-> built.unhandled, ret |-> None]))

\* A loader that writes the records it met before the splitter failed.
etl_from_filename_partial(lines, tbls) ==
    LET ok(k) == get_nightly_records(SubSeq(lines, 1, k)).exc = "none"
        good == CHOOSE k \in 0..Len(lines) :
                    ok(k) /\ \A j \in (k + 1)..Len(lines) : ~ok(j)
    IN  Bind(load_records(get_nightly_records(SubSeq(lines, 1, good)).records, tbls),
             LAMBDA r : IF good = Len(lines) \/ r.exc # "none" THEN r
                        ELSE [r EXCEPT !.exc = "ParseError"])

\* lines is the content of the file split at "\n".  The result holds the
\* exception that ended the call, the tables as the call left them, the
\* tags it warned about and what the call returned: the function has no
\* return statement.
etl_from_filename(lines, tbls) ==
    Bind(get_nightly_records(lines), LAMBDA split :
        IF split.exc # "none"
        THEN [exc |-> split.exc, tables |-> tbls, unhandled |-> <<>>, ret |-> None]
        ELSE load_records(split.records, tbls))

\* ord() of the characters of the file names.
Ord ==
       ("." :> 46) @@ ("1" :> 49) @@ ("2" :> 50) @@ ("B" :> 66) @@ ("F" :> 70)
    @@ ("O" :> 79) @@ ("d" :> 100) @@ ("e" :> 101) @@ ("l" :> 108) @@ ("n" :> 110)
    @@ ("o" :> 111) @@ ("q" :> 113) @@ ("s" :> 115) @@ ("t" :> 116)

RECURSIVE StrLess(_, _)
StrLess(a, b) ==
    IF a = <<>> THEN b # <<>>
    ELSE IF b = <<>> THEN FALSE
    ELSE IF a[1] = b[1] THEN StrLess(Tail(a), Tail(b))
    ELSE Ord[a[1]] < Ord[b[1]]

RECURSIVE sorted(_)
sorted(S) ==
    IF S = {} THEN <<>>
    ELSE Bind(CHOOSE x \in S : \A y \in S \ {x} : StrLess(x, y),
              LAMBDA m : <<m>> \o sorted(S \ {m}))

s_FBO == <<"F", "B", "O">>
s_dotsql == <<".", "s", "q", "l">>

\* A directory run that takes every file of the directory.
is_feed_all(fname) == TRUE

\* The file name filter of etl_from_dir.
is_feed(fname) == startswith(fname, s_FBO) /\ ~endswith(fname, s_dotsql)

\* A directory run that never looks at the log.
skip_parsed_never(entries, fname, reparse) == FALSE

\* The file is passed over: reparse == False and the log holds its entry.
skip_parsed(entries, fname, reparse) ==
    reparse = FALSE /\ get_parsed_datetime(entries, fname) # None

\* The database classes: model.FBO, which main() builds, has no
\* get_parsed_datetime; sql.DBConn has.
db_model_FBO == "model.FBO"
db_sql_DBConn == "sql.DBConn"
DBClasses == {db_model_FBO, db_sql_DBConn}

has_get_parsed_datetime(dbc) == dbc = db_sql_DBConn

\* The loop over the sorted directory listing.  st holds the exception that
\* ended the run, the tables, the log, the clock, the files opened and the
\* warnings emitted so far.
RECURSIVE etl_dir_loop(_, _, _, _, _, _)
etl_dir_loop(dbc, dsk, names, i, reparse, st) ==
    IF i > Len(names) THEN st
    ELSE
    LET fname == names[i]
    IN  IF ~is_feed(fname)
        THEN etl_dir_loop(dbc, dsk, names, i + 1, reparse, st)
        ELSE IF reparse = FALSE /\ ~has_get_parsed_datetime(dbc)
        THEN [st EXCEPT !.exc = "AttributeError"]
        ELSE IF skip_parsed(st.log, fname, reparse)
        THEN etl_dir_loop(dbc, dsk, names, i + 1, reparse, st)
        ELSE Bind(etl_from_filename(dsk[fname], st.tables), LAMBDA r :
             IF r.exc # "none"
             THEN [st EXCEPT !.exc = r.exc, !.tables = r.tables,
                             !.opened = Append(@, fname),
                             !.unhandled = @ \o r.unhandled]
             ELSE Bind([exc |-> "none",
                        tables |-> r.tables,
                        log |-> log_insert(st.log, st.now, s_nightly,
                                           s_Parsed \o fname),
                        now |-> st.now + 1,
                        opened |-> Append(st.opened, fname),
                        unhandled |-> st.unhandled \o r.unhandled,
                        ret |-> None],
                       LAMBDA st2 :
                           etl_dir_loop(dbc, dsk, names, i + 1, reparse, st2)))

\* A directory run that undoes what it did when a file raises.
etl_from_dir_undo(dbc, dsk, reparse, tbls, entries, clock) ==
    Bind(etl_dir_loop(dbc, dsk, sorted(DOMAIN dsk), 1, reparse,
                      [exc |-> "none", tables |-> tbls, log |-> entries,
                       now |-> clock, opened |-> <<>>, unhandled |-> <<>>,
                       ret |-> None]),
         LAMBDA st : IF st.exc = "none" THEN st
                     ELSE [st EXCEPT !.tables = tbls, !.log = entries, !.now = clock])

\* A directory run that logs "Parsed" for the file that raised as well.
etl_from_dir_log_aborted(dbc, dsk, reparse, tbls, entries, clock) ==
    Bind(etl_dir_loop(dbc, dsk, sorted(DOMAIN dsk), 1, reparse,
                      [exc |-> "none", tables |-> tbls, log |-> entries,
                       now |-> clock, opened |-> <<>>, unhandled |-> <<>>,
                       ret |-> None]),
         LAMBDA st : IF st.exc = "none" \/ st.opened = <<>> THEN st
                     ELSE [st EXCEPT !.log = log_insert(st.log, st.now, s_nightly,
                                                s_Parsed \o st.opened[Len(st.opened)]),
                                     !.now = st.now + 1])

etl_from_dir(dbc, dsk, reparse, tbls, entries, clock) ==
    Bind(sorted(DOMAIN dsk), LAMBDA names :
        etl_dir_loop(dbc, dsk, names, 1, reparse,
                     [exc |-> "none", tables |-> tbls, log |-> entries,
                      now |-> clock, opened |-> <<>>, unhandled |-> <<>>,
                      ret |-> None]))

(***************************************************************************)
(* The downloader.  The remote end is [status, body, newer, transfer]:     *)
(* whether the server answers, the lines of the file it holds, whether its *)
(* modification time is after the local file's, and whether the transfer   *)
(* of the body completes.                                                  *)
(***************************************************************************)
s_ftp == <<"f", "t", "p", ":", "/", "/">>
s_http == <<"h", "t", "t", "p", ":", "/", "/">>
s_host == <<"h", "/">>
s_from == <<" ", "f", "r", "o", "m", " ">>
s_datadir == <<"d">>

\* os.path.join(datadir, name)
path_join(dir, name) == dir \o <<"/">> \o name

\* os.path.basename(path): what follows the last "/".
RECURSIVE basename(_)
basename(path) ==
    IF ~Contains(path, "/") THEN path
    ELSE basename(SubSeq(path, FirstIndex(path, "/") + 1, Len(path)))

\* os.path.getsize of a file holding the lines joined by "\n".
RECURSIVE getsize(_)
getsize(lines) ==
    IF lines = <<>> THEN 0
    ELSE IF Len(lines) = 1 THEN Len(lines[1])
    ELSE Len(lines[1]) + 1 + getsize(Tail(lines))

\* open(fname, "wb") and the writes that reached the file.
write_file(dsk, name, lines) ==
    [f \in DOMAIN dsk \cup {name} |-> IF f = name THEN lines ELSE dsk[f]]

unlink(dsk, name) == [f \in DOMAIN dsk \ {name} |-> dsk[f]]

fname_is_stale_ftp(dsk, fname, remote) ==
    IF remote.status # "ok" THEN [exc |-> "ftplib.Error", stale |-> FALSE]
    ELSE IF getsize(remote.body) # getsize(dsk[basename(fname)])
    THEN [exc |-> "none", stale |-> TRUE]
    ELSE [exc |-> "none", stale |-> remote.newer]

\* An http test that raises when the HEAD request is not answered with 200.
fname_is_stale_http_strict(dsk, fname, remote) ==
    IF remote.status # "ok" THEN [exc |-> "requests.HTTPError", stale |-> FALSE]
    ELSE IF getsize(remote.body) # getsize(dsk[basename(fname)])
    THEN [exc |-> "none", stale |-> TRUE]
    ELSE [exc |-> "NameError", stale |-> FALSE]

\* get_mtime reads the name time, which download.py never imports.
fname_is_stale_http(dsk, fname, remote) ==
    IF remote.status # "ok" THEN [exc |-> "none", stale |-> FALSE]
    ELSE IF getsize(remote.body) # getsize(dsk[basename(fname)])
    THEN [exc |-> "none", stale |-> TRUE]
    ELSE [exc |-> "NameError", stale |-> FALSE]

\* A staleness test that asks the remote end whatever the log holds.
fname_is_stale_unlogged(dsk, entries, clock, tag, fname, url, check_log, remote) ==
    LET quiet(stale) == [exc |-> "none", stale |-> stale, log |-> entries, now |-> clock]
        s == IF startswith(url, s_ftp)
             THEN fname_is_stale_ftp(dsk, fname, remote)
             ELSE fname_is_stale_http(dsk, fname, remote)
    IN  IF basename(fname) \notin DOMAIN dsk THEN quiet(TRUE)
        ELSE IF s.exc # "none" THEN [quiet(FALSE) EXCEPT !.exc = s.exc]
        ELSE IF ~s.stale
        THEN [exc |-> "none", stale |-> FALSE,
              log |-> log_insert(entries, clock, tag, s_Downloaded \o basename(fname)),
              now |-> clock + 1]
        ELSE quiet(TRUE)

fname_is_stale(dsk, entries, clock, tag, fname, url, check_log, remote) ==
    LET quiet(stale) == [exc |-> "none", stale |-> stale, log |-> entries, now |-> clock]
        s == IF startswith(url, s_ftp)
             THEN fname_is_stale_ftp(dsk, fname, remote)
             ELSE fname_is_stale_http(dsk, fname, remote)
    IN  IF basename(fname) \notin DOMAIN dsk THEN quiet(TRUE)
        ELSE IF check_log /\ get_download_datetime(entries, basename(fname)) # None
        THEN quiet(FALSE)
        ELSE IF s.exc # "none" THEN [quiet(FALSE) EXCEPT !.exc = s.exc]
        ELSE IF ~s.stale
        THEN [exc |-> "none", stale |-> FALSE,
              log |-> log_insert(entries, clock, tag, s_Downloaded \o basename(fname)),
              now |-> clock + 1]
        ELSE quiet(TRUE)

\* A transfer that leaves on disk what it got before it broke off.
dload_if_stale_ftp_keep_partial(dsk, entries, clock, tag, fname, remote) ==
    IF remote.status # "ok"
    THEN [exc |-> "ftplib.Error", ret |-> FALSE, disk |-> dsk,
          log |-> entries, now |-> clock]
    ELSE IF remote.transfer # "ok"
    THEN [exc |-> "ftplib.Error", ret |-> FALSE,
          disk |-> write_file(dsk, basename(fname),
                              SubSeq(remote.body, 1, Len(remote.body) \div 2)),
          log |-> entries, now |-> clock]
    ELSE [exc |-> "none", ret |-> TRUE,
          disk |-> write_file(dsk, basename(fname), remote.body),
          log |-> log_insert(entries, clock, tag, s_Downloaded \o basename(fname)),
          now |-> clock + 1]

dload_if_stale_ftp(dsk, entries, clock, tag, fname, remote) ==
    IF remote.status # "ok"
    THEN [exc |-> "ftplib.Error", ret |-> FALSE, disk |-> dsk,
          log |-> entries, now |-> clock]
    ELSE IF remote.transfer # "ok"
    THEN [exc |-> "ftplib.Error", ret |-> FALSE, disk |-> unlink(dsk, basename(fname)),
          log |-> entries, now |-> clock]
    ELSE [exc |-> "none", ret |-> TRUE,
          disk |-> write_file(dsk, basename(fname), remote.body),
          log |-> log_insert(entries, clock, tag, s_Downloaded \o basename(fname)),
          now |-> clock + 1]

\* The lines that reached the file when the transfer broke off.
truncated(body) == SubSeq(body, 1, Len(body) \div 2)

dload_if_stale(dsk, entries, clock, tag, fname, url, check_log, remote) ==
    Bind(fname_is_stale(dsk, entries, clock, tag, fname, url, check_log, remote),
         LAMBDA s :
    LET kept(exc) == [exc |-> exc, ret |-> FALSE, disk |-> dsk,
                      log |-> s.log, now |-> s.now]
    IN  IF s.exc # "none" THEN kept(s.exc)
        ELSE IF ~s.stale THEN kept("none")
        ELSE IF startswith(url, s_ftp)
        THEN dload_if_stale_ftp(dsk, entries, clock, tag, fname, remote)
        ELSE IF remote.status # "ok" THEN kept("none")
        ELSE IF remote.transfer # "ok"
        THEN [kept("requests.ConnectionError") EXCEPT
                 !.disk = write_file(dsk, basename(fname), truncated(remote.body))]
        ELSE [kept("none") EXCEPT
                 !.ret = TRUE,
                 !.disk = write_file(dsk, basename(fname), remote.body)])

\* Downloader.download over the pairs its generator yields.  st holds the
\* exception that ended the call, the disk, the log, the clock and the list
\* of the files downloaded so far.
RECURSIVE download_loop(_, _, _, _, _, _)
download_loop(pairs, i, tag, check_log, remote, st) ==
    IF i > Len(pairs) THEN st
    ELSE
    LET pair == pairs[i]
    IN  Bind(dload_if_stale(st.disk, st.log, st.now, tag, pair.fname, pair.url,
                            check_log, remote),
             LAMBDA d :
        Bind(IF d.exc # "none" \/ ~d.ret
             THEN [st EXCEPT !.exc = d.exc, !.disk = d.disk, !.log = d.log,
                             !.now = d.now]
             ELSE [exc |-> "none", disk |-> d.disk,
                   log |-> log_insert(d.log, d.now, tag,
                              s_Downloaded \o pair.fname \o s_from \o pair.url),
                   now |-> d.now + 1,
                   downloaded |-> Append(st.downloaded, pair.fname)],
             LAMBDA st2 :
                 IF st2.exc # "none" THEN st2
                 ELSE download_loop(pairs, i + 1, tag, check_log, remote, st2)))

download(dsk, entries, clock, tag, pairs, check_log, remote) ==
    download_loop(pairs, 1, tag, check_log, remote,
                  [exc |-> "none", disk |-> dsk, log |-> entries, now |-> clock,
                   downloaded |-> <<>>])

(***************************************************************************)
(* The feed files of the pipeline specification.                           *)
(***************************************************************************)
t_PRESOL == <<"P", "R", "E", "S", "O", "L">>
l_open == <<"<", "P", "R", "E", "S", "O", "L", ">">>
l_close == <<"<", "/", "P", "R", "E", "S", "O", "L", ">">>
l_date == <<"<", "D", "A", "T", "E", ">", "0", "1", "1", "5">>
l_year == <<"<", "Y", "E", "A", "R", ">", "2", "3">>
l_link == <<"<", "L", "I", "N", "K", ">", "x">>
l_email == <<"<", "E", "M", "A", "I", "L", ">", "x">>
l_desc == <<"<", "D", "E", "S", "C", ">", "h", "e", "l", "l", "o">>
l_url == <<"<", "U", "R", "L", ">", "u">>
l_address == <<"<", "A", "D", "D", "R", "E", "S", "S", ">", "a">>
l_text == <<"t", "e", "x", "t">>
l_para == <<"<", "p", ">", "p", "a", "r", "a">>
l_cr == <<"m", "o", "r", "e", "\r">>
v_hello == <<"h", "e", "l", "l", "o">>
l_award == <<"<", "A", "W", "A", "R", "D", ">">>
l_award_end == <<"<", "/", "A", "W", "A", "R", "D", ">">>
l_foo == <<"<", "F", "O", "O", ">">>
l_foo_end == <<"<", "/", "F", "O", "O", ">">>
l_zip1 == <<"<", "Z", "I", "P", ">", "1">>
l_zip2 == <<"<", "Z", "I", "P", ">", "2">>
l_bogus == <<"<", "B", "O", "G", "U", "S", ">", "z">>
l_junk == <<"j", "u", "n", "k">>

rec_presol1 == <<l_open, l_date, l_year, l_zip1, l_close>>
rec_presol2 == <<l_open, l_date, l_year, l_zip2, l_close>>
rec_award == <<l_award, l_date, l_year, l_zip1, l_award_end>>
rec_foo == <<l_foo, l_zip1, l_foo_end>>
rec_bogus == <<l_open, l_date, l_year, l_bogus, l_close>>
rec_noyear == <<l_open, l_date, l_close>>
rec_nodate == <<l_open, l_year, l_zip2, l_close>>

\* A presol record, a blank line, an award record.
feed_two_tables == rec_presol1 \o <<<<>>>> \o rec_award
\* Two presol records back to back; the first is the one of feed_two_tables.
feed_overlap == rec_presol1 \o rec_presol2
\* The same records the other way round: the same size, another content.
feed_overlap_swapped == rec_presol2 \o rec_presol1
\* A line without a tag between two records.
feed_junk == rec_presol1 \o <<l_junk>> \o rec_presol2
\* A record with a field its table has no column for, after a good record.
feed_bogus == rec_presol1 \o rec_bogus
\* A record of a type without a class, twice, and a good record.
feed_unhandled == rec_foo \o rec_presol2 \o rec_foo
\* Another file with a record of that type.
feed_unhandled_again == rec_foo \o rec_presol1
\* A record without its year.
feed_noyear == rec_presol2 \o rec_noyear
\* A record without its date, after a good record.
feed_nodate == rec_presol1 \o rec_nodate

n_feed1 == <<"F", "B", "O", "F", "e", "e", "d", "1">>
n_feed2 == <<"F", "B", "O", "F", "e", "e", "d", "2">>
n_feed1_sql == <<"F", "B", "O", "F", "e", "e", "d", "1", ".", "s", "q", "l">>
n_notes == <<"n", "o", "t", "e", "s">>

FileNames == {n_feed1, n_feed2, n_feed1_sql, n_notes}

\* The data directories the pipeline starts from.
Disks == {
    (n_feed1 :> feed_two_tables) @@ (n_feed2 :> feed_overlap)
        @@ (n_feed1_sql :> feed_overlap) @@ (n_notes :> feed_junk),
    (n_feed1 :> feed_overlap) @@ (n_feed2 :> feed_junk),
    (n_feed1 :> feed_bogus) @@ (n_feed2 :> feed_noyear),
    (n_feed1 :> feed_unhandled) @@ (n_feed2 :> feed_nodate),
    (n_feed1 :> feed_unhandled) @@ (n_feed2 :> feed_unhandled_again)
}

\* What the server may answer during a download.
Remotes == {
    [status |-> "ok", body |-> feed_overlap, newer |-> FALSE, transfer |-> "ok"],
    [status |-> "ok", body |-> feed_overlap_swapped, newer |-> TRUE, transfer |-> "ok"],
    [status |-> "ok", body |-> feed_two_tables, newer |-> FALSE, transfer |-> "fail"],
    [status |-> "down", body |-> <<>>, newer |-> FALSE, transfer |-> "fail"]
}

\* date2fname and date2url of a day, over http as well.
Pair(scheme, name) ==
    [fname |-> path_join(s_datadir, name), url |-> scheme \o s_host \o name]

Pairs == {<<Pair(scheme, n_feed2)>> : scheme \in {s_ftp, s_http}}

s_note == <<"n", "o", "t", "e">>

DedupeTables == {lower(t_PRESOL), <<"a", "w", "a", "r", "d">>}

(***************************************************************************)
(* Spec: the pipeline.  Every action is one call of an operation on the    *)
(* database and the data directory; last keeps what the call returned or   *)
(* raised, the files a directory run opened and the tags it warned about.  *)
(***************************************************************************)
Last(op, arg, reparse, exc, opened, unhandled, ret, n) ==
    [op |-> op, arg |-> arg, reparse |-> reparse, exc |-> exc,
     opened |-> opened, unhandled |-> unhandled, ret |-> ret, n |-> n]

\* The tables of a new database: after db.migrate() every class's table,
\* before the migration of the award class all but that one.
Schemas == {DOMAIN FBOTableEntry_classes,
            DOMAIN FBOTableEntry_classes \ {<<"a", "w", "a", "r", "d">>}}

Init ==
    /\ input = <<>>
    /\ output = NotCalled
    /\ db \in DBClasses
    /\ disk \in Disks
    /\ \E schema \in Schemas : tables = [t \in schema |-> <<>>]
    /\ log = <<>>
    /\ now = 0
    /\ last = Last("none", <<>>, FALSE, "none", <<>>, <<>>, None, 0)

EtlFromFilename(name) ==
    /\ last.n < MaxOps
    /\ \E r \in {IF name \in DOMAIN disk
                 THEN etl_from_filename(disk[name], tables)
                 ELSE [exc |-> "FileNotFoundError", tables |-> tables,
                       unhandled |-> <<>>, ret |-> None]} :
           /\ tables' = r.tables
           /\ last' = Last("etl_from_filename", name, FALSE, r.exc, <<name>>,
                           r.unhandled, r.ret, last.n + 1)
    /\ UNCHANGED <<input, output, db, disk, log, now>>

EtlFromDir(reparse) ==
    /\ last.n < MaxOps
    /\ \E r \in {etl_from_dir(db, disk, reparse, tables, log, now)} :
           /\ tables' = r.tables
           /\ log' = r.log
           /\ now' = r.now
           /\ last' = Last("etl_from_dir", <<>>, reparse, r.exc, r.opened,
                           r.unhandled, r.ret, last.n + 1)
    /\ UNCHANGED <<input, output, db, disk>>

Log(message) ==
    /\ last.n < MaxOps
    /\ log' = log_insert(log, now, s_nightly, message)
    /\ now' = now + 1
    /\ last' = Last("log", message, FALSE, "none", <<>>, <<>>, None, last.n + 1)
    /\ UNCHANGED <<input, output, db, disk, tables>>

Dedupe(table) ==
    /\ last.n < MaxOps
    /\ IF table \in DOMAIN tables
       THEN /\ tables' = [tables EXCEPT ![table] = dedupe(@)]
            /\ last' = Last("dedupe", table, FALSE, "none", <<>>, <<>>, None, last.n + 1)
       ELSE /\ tables' = tables
            /\ last' = Last("dedupe", table, FALSE, "OperationalError", <<>>, <<>>,
                            None, last.n + 1)
    /\ UNCHANGED <<input, output, db, disk, log, now>>

Download(pairs, check_log, remote) ==
    /\ last.n < MaxOps
    /\ \E r \in {download(disk, log, now, s_nightly, pairs, check_log, remote)} :
           /\ disk' = r.disk
           /\ log' = r.log
           /\ now' = r.now
           /\ last' = Last("download", <<>>, FALSE, r.exc, r.downloaded, <<>>,
                           IF r.exc = "none" THEN Some(r.downloaded) ELSE None,
                           last.n + 1)
    /\ UNCHANGED <<input, output, db, tables>>

Next ==
    \/ \E name \in FileNames : EtlFromFilename(name)
    \/ \E reparse \in BOOLEAN : EtlFromDir(reparse)
    \/ Log(s_note)
    \/ \E table \in DedupeTables : Dedupe(table)
    \/ \E pairs \in Pairs, check_log \in BOOLEAN, remote \in Remotes :
          Download(pairs, check_log, remote)

Spec == Init /\ [][Next]_vars

(***************************************************************************)
(* Bounded sequences.                                                      *)
(***************************************************************************)
SeqUpTo(S, n) == UNION {[1..k -> S] : k \in 0..n}

(***************************************************************************)
(* The state of the pipeline before anything ran: an empty database whose  *)
(* schema has been migrated, and an empty data directory.                  *)
(***************************************************************************)
NoOp == [op |-> "none"]

PipelineIdle ==
    /\ db = db_model_FBO
    /\ disk = <<>>
    /\ tables = <<>>
    /\ log = <<>>
    /\ now = 0
    /\ last = NoOp

(***************************************************************************)
(* SpecLex: parse_line applied to every line over LexChars of at most      *)
(* MaxLineLen characters.                                                  *)
(***************************************************************************)
LexChars == {"<", ">", " ", "/", "A"}

InitLex ==
    /\ input \in SeqUpTo(LexChars, MaxLineLen)
    /\ output = NotCalled
    /\ PipelineIdle

ParseLine ==
    /\ output = NotCalled
    /\ output' = parse_line(input)
    /\ UNCHANGED <<input, db, disk, tables, log, now, last>>

NextLex == ParseLine

SpecLex == InitLex /\ [][NextLex]_vars

\* The first position of the line that holds a space or a '>'.
FirstStop(line) == CHOOSE i \in 1..Len(line) :
                       /\ line[i] \in {" ", ">"}
                       /\ \A j \in 1..(i - 1) : line[j] \notin {" ", ">"}

\* C8: on a line that starts with '<' and contains '>' parse_line returns the
\* text between the '<' and the first space or '>' as the tag and everything
\* after the first '>' as the remainder; on every other line it raises
\* ParseError and returns nothing.
C8_ParseLineContract ==
    output # NotCalled =>
        IF Len(input) > 0 /\ input[1] = "<" /\ (\E i \in 1..Len(input) : input[i] = ">")
        THEN /\ output.exc = "none"
             /\ output.tag = [i \in 1..(FirstStop(input) - 2) |-> input[i + 1]]
             /\ output.tag \o SubSeq(input, FirstStop(input), FirstIndex(input, ">"))
                  \o output.val = Tail(input)
             /\ Len(output.val) = Len(input) - FirstIndex(input, ">")
        ELSE output = ParseError

\* A line with attributes after the tag name and a second '>' in its value
\* has been lexed.
C8_Witness ==
    /\ output # NotCalled
    /\ output.exc = "none"
    /\ output.tag = <<"A">>
    /\ Contains(output.val, ">")
    /\ Contains(input, " ")

(***************************************************************************)
(* SpecSplit: get_nightly_records applied to every feed of at most         *)
(* MaxLines lines drawn from SplitLines.                                   *)
(***************************************************************************)
SplitLines == {
    <<"<", "A", ">">>,
    <<"<", "/", "A", ">">>,
    <<"<", "B", " ", "x", ">">>,
    <<"<", "/", "B", ">">>,
    <<>>,
    <<"x">>,
    <<"<", ">">>
}

InitSplit ==
    /\ input \in UNION {[1..k -> SplitLines] : k \in 1..MaxLines}
    /\ output = NotCalled
    /\ PipelineIdle

GetNightlyRecords ==
    /\ output = NotCalled
    /\ output' = get_nightly_records(input)
    /\ UNCHANGED <<input, db, disk, tables, log, now, last>>

NextSplit == GetNightlyRecords

SpecSplit == InitSplit /\ [][NextSplit]_vars

\* The line opens a record: it lexes to a non-empty tag.
IsOpeningLine(line) ==
    /\ parse_line(line).exc = "none"
    /\ parse_line(line).tag # <<>>

\* lines[a..b] begins with an opening-tag line and ends with a line equal
\* to its own closing tag.
IsRecordAt(lines, a, b) ==
    /\ a < b
    /\ IsOpeningLine(lines[a])
    /\ lines[b] = ClosingLine(parse_line(lines[a]).tag)

\* ... and no line before its last is that closing tag.
IsTightRecordAt(lines, a, b) ==
    /\ IsRecordAt(lines, a, b)
    /\ \A j \in (a + 1)..(b - 1) : lines[j] # lines[b]

\* D cuts the lines into records placed back to back with only blank lines
\* outside them.
IsDecomposition(lines, D) ==
    /\ \A x \in D, y \in D : x # y => (x[2] < y[1] \/ y[2] < x[1])
    /\ \A i \in 1..Len(lines) :
          (\A x \in D : i < x[1] \/ i > x[2]) => IsBlank(lines[i])

\* The records that start before position i.
Before(D, i) == {x \in D : x[1] < i}

\* The splitter returned exactly the records of D, in input order.
ReturnsExactly(lines, D, out) ==
    /\ out.exc = "none"
    /\ Len(out.records) = Cardinality(D)
    /\ \A x \in D :
          out.records[Cardinality(Before(D, x[1])) + 1] = SubSeq(lines, x[1], x[2])

Intervals(lines) == {x \in (1..Len(lines)) \X (1..Len(lines)) : x[1] < x[2]}

\* C5 as stated: for every way to read the input as n records that each begin
\* with an opening-tag line and end with their own closing tag, with blank
\* lines between them, get_nightly_records returns exactly those n records in
\* input order.
C5_Original ==
    output # NotCalled =>
        \A D \in SUBSET {x \in Intervals(input) : IsRecordAt(input, x[1], x[2])} :
            IsDecomposition(input, D) => ReturnsExactly(input, D, output)

\* C5 (amended): the same when, in addition, no line of a record before its
\* last line equals the record's closing tag; two adjacent records of one
\* type with no blank line between them yield two RawRecords.
C5_SplitsTightRecords ==
    output # NotCalled =>
        \A D \in SUBSET {x \in Intervals(input) : IsTightRecordAt(input, x[1], x[2])} :
            IsDecomposition(input, D) => ReturnsExactly(input, D, output)

\* Two records of the same type, adjacent with no blank line between them,
\* have been split into two RawRecords.
C5_Witness ==
    /\ output # NotCalled
    /\ output.exc = "none"
    /\ Len(output.records) = 2
    /\ Len(input) = 4
    /\ input[1] = <<"<", "A", ">">>
    /\ input[3] = <<"<", "A", ">">>
    /\ output.records[1] = SubSeq(input, 1, 2)
    /\ output.records[2] = SubSeq(input, 3, 4)

\* C6: every RawRecord that get_nightly_records returns starts with a line
\* whose lexed tag is some TYPE and ends with the line '</TYPE>' of that TYPE.
C6_RecordsBoundedByOwnTags ==
    (output # NotCalled /\ output.exc = "none") =>
        \A k \in 1..Len(output.records) :
            LET r == output.records[k] IN
            /\ parse_line(r[1]).exc = "none"
            /\ r[Len(r)] = ClosingLine(parse_line(r[1]).tag)


\* Where the record begins that the splitter is in when the input ends: the
\* index of the opening line whose closing tag never comes, or 0 when the
\* input ends outside a record or cannot be split.
RECURSIVE OpenedAt(_, _, _, _)
OpenedAt(lines, i, curr, start) ==
    IF i > Len(lines) THEN (IF Truthy(curr) THEN start ELSE 0)
    ELSE IF ~Truthy(curr)
    THEN IF IsBlank(lines[i]) THEN OpenedAt(lines, i + 1, curr, start)
         ELSE IF parse_line(lines[i]).exc # "none" THEN 0
         ELSE OpenedAt(lines, i + 1, Some(parse_line(lines[i]).tag), i)
    ELSE IF lines[i] = ClosingLine(curr[1]) THEN OpenedAt(lines, i + 1, None, 0)
    ELSE OpenedAt(lines, i + 1, curr, start)

RECURSIVE TotalLines(_)
TotalLines(records) ==
    IF records = <<>> THEN 0 ELSE Len(Head(records)) + TotalLines(Tail(records))

\* C33: when the input ends inside a record, get_nightly_records raises
\* nothing and returns the records that the lines before the opening line
\* of that record give, and nothing of the lines from there on, whatever
\* records of other types they hold.
C33_UnclosedRecordIsDropped ==
    (output # NotCalled /\ OpenedAt(input, 1, None, 0) > 0) =>
        /\ output.exc = "none"
        /\ output.records
               = get_nightly_records(SubSeq(input, 1, OpenedAt(input, 1, None, 0) - 1)).records
        /\ TotalLines(output.records) <= OpenedAt(input, 1, None, 0) - 1
        /\ \A k \in 1..Len(output.records) : \A j \in 1..Len(output.records[k]) :
              \E a \in 1..(OpenedAt(input, 1, None, 0) - 1) :
                  output.records[k][j] = input[a]

\* C33, its case: an A record, then an A record that is never closed and
\* holds a whole B record: the first A record alone is returned.
C33_Witness ==
    /\ output # NotCalled
    /\ input = <<<<"<", "A", ">">>, <<"<", "/", "A", ">">>, <<"<", "A", ">">>,
                 <<"<", "B", " ", "x", ">">>, <<"<", "/", "B", ">">>>>
    /\ OpenedAt(input, 1, None, 0) = 3
    /\ output.exc = "none"
    /\ output.records = <<<<<<"<", "A", ">">>, <<"<", "/", "A", ">">>>>>>

(***************************************************************************)
(* SpecClean: cleanup applied to assembled records: a date and a year of   *)
(* at most MaxYearLen characters, each present or not, and a choice of     *)
(* further fields.                                                         *)
(***************************************************************************)
MaxYearLen == 2

DateInputs == {
    <<"0", "1", "1", "5">>,
    <<"0", "2", "2", "9">>,
    <<"1", "3", "0", "1">>,
    <<"0", "2", "3", "0">>,
    <<"0", "1">>,
    <<"1", "2", "3", "1">>
}

YearChars == {"0", "2", "3", "5", "8", "9", "x"}

\* Fields an assembled record may carry besides date and year.
ExtraFields == <<
    <<k_link, <<"x">>>>,
    <<<<"s", "o", "l", "n", "b", "r">>, <<"s">>>>,
    <<k_respdate, <<"1", "2", "3", "1", "9", "9">>>>,
    <<k_desc, <<"d">>>>,
    <<<<"e", "m", "a", "i", "l">>, <<"e">>>>,
    <<<<"a", "d", "d", "r", "e", "s", "s">>, <<"a">>>>
>>

Optional(x) == {<<>>, <<x>>}

RECURSIVE Pick(_, _, _)
Pick(seq, S, i) ==
    IF i > Len(seq) THEN <<>>
    ELSE (IF i \in S THEN <<seq[i]>> ELSE <<>>) \o Pick(seq, S, i + 1)

InitClean ==
    /\ \E d \in {<<>>} \cup {<<<<k_date, x>>>> : x \in DateInputs},
          y \in {<<>>} \cup {<<<<k_year, x>>>> : x \in SeqUpTo(YearChars, MaxYearLen)},
          S \in SUBSET (1..Len(ExtraFields)) :
            input = d \o y \o Pick(ExtraFields, S, 1)
    /\ output = NotCalled
    /\ PipelineIdle

Cleanup ==
    /\ output = NotCalled
    /\ output' = cleanup(input)
    /\ UNCHANGED <<input, db, disk, tables, log, now, last>>

NextClean == Cleanup

SpecClean == InitClean /\ [][NextClean]_vars

IsDigits(s, n) == Len(s) = n /\ \A i \in 1..n : s[i] \in DOMAIN DigitVal

TwoDigits(s, i) == 10 * DigitVal[s[i]] + DigitVal[s[i + 1]]

\* C10: cleanup composes the 4-digit month/day in date and the 2-digit year
\* into one date, with year < 90 -> 2000 + year and 90 <= year <= 99 ->
\* 1900 + year, and removes year from the map: '0115' with '23' gives
\* 2023-01-15 and with '05' gives 2005-01-15.
C10_DateComposition ==
    (/\ output # NotCalled
     /\ DictHas(input, k_date) /\ IsDigits(DictGet(input, k_date), 4)
     /\ DictHas(input, k_year) /\ IsDigits(DictGet(input, k_year), 2)) =>
        LET yy == TwoDigits(DictGet(input, k_year), 1)
            mm == TwoDigits(DictGet(input, k_date), 1)
            dd == TwoDigits(DictGet(input, k_date), 3)
            year == IF yy < 90 THEN 2000 + yy ELSE 1900 + yy
        IN  IF mm \in 1..12 /\ dd \in 1..DaysInMonth(year, mm)
            THEN /\ output.exc = "none"
                 /\ ~DictHas(output.record, k_year)
                 /\ DictGet(output.record, k_date) =
                        Pad(year, 4) \o <<"-">> \o Pad(mm, 2) \o <<"-">> \o Pad(dd, 2)
                 /\ (DictGet(input, k_date) = <<"0", "1", "1", "5">>
                       /\ DictGet(input, k_year) = <<"2", "3">>)
                    => DictGet(output.record, k_date) = <<"2", "0", "2", "3", "-", "0", "1", "-", "1", "5">>
                 /\ (DictGet(input, k_date) = <<"0", "1", "1", "5">>
                       /\ DictGet(input, k_year) = <<"0", "5">>)
                    => DictGet(output.record, k_date) = <<"2", "0", "0", "5", "-", "0", "1", "-", "1", "5">>
            ELSE output.exc = "ValueError"

\* cleanup has composed date '0115' and year '23' into 2023-01-15.
C10_Witness ==
    /\ output # NotCalled
    /\ output.exc = "none"
    /\ DictGet(input, k_date) = <<"0", "1", "1", "5">>
    /\ DictGet(input, k_year) = <<"2", "3">>
    /\ DictGet(output.record, k_date) = <<"2", "0", "2", "3", "-", "0", "1", "-", "1", "5">>
    /\ ~DictHas(output.record, k_year)

v_0115 == <<"0", "1", "1", "5">>
v_99 == <<"9", "9">>

IsDate0115Year99 ==
    /\ output # NotCalled
    /\ DictHas(input, k_date) /\ DictGet(input, k_date) = v_0115
    /\ DictHas(input, k_year) /\ DictGet(input, k_year) = v_99

\* C11 as stated: date '0115' with year '99' composes to 1899-01-15.
C11_Original ==
    IsDate0115Year99 =>
        /\ output.exc = "none"
        /\ DictGet(output.record, k_date) =
               <<"1", "8", "9", "9", "-", "0", "1", "-", "1", "5">>

\* C11, amended: date '0115' with year '99' composes to 1999-01-15.
C11_Year99Is1999 ==
    IsDate0115Year99 =>
        /\ output.exc = "none"
        /\ DictGet(output.record, k_date) =
               <<"1", "9", "9", "9", "-", "0", "1", "-", "1", "5">>

\* C11, its case: cleanup has run on a record with date '0115' and year '99'.
C11_Witness ==
    /\ IsDate0115Year99
    /\ output.exc = "none"
    /\ ~DictHas(output.record, k_year)

RenameSources == {Renames[i][1] : i \in 1..Len(Renames)}

\* The names under which cleanup stores a value of its own making for this
\* input: the target of every rename whose source is present, response_date
\* when respdate is present, and date.
Rewritten ==
    {Renames[i][2] : i \in {j \in 1..Len(Renames) : DictHas(input, Renames[j][1])}}
        \cup (IF DictHas(input, k_respdate) THEN {k_response_date} ELSE {})
        \cup {k_date}

Returned == output # NotCalled /\ output.exc = "none"

NoDroppedOrSourceKey ==
    Keys(output.record) \cap ({k_link, k_respdate, k_year} \cup RenameSources) = {}

RenamedUnderTarget ==
    \A i \in 1..Len(Renames) :
        DictHas(input, Renames[i][1]) =>
            /\ DictHas(output.record, Renames[i][2])
            /\ DictGet(output.record, Renames[i][2]) = DictGet(input, Renames[i][1])

KeepsValue(k) == DictHas(output.record, k) /\ DictGet(output.record, k) = DictGet(input, k)

\* C27 as it is stated: the map cleanup returns has no link, respdate, year
\* or rename-source key, every renamed value is under its target name, and
\* every field that is not dropped, renamed or composed keeps its value.
C27_Original ==
    Returned =>
        /\ NoDroppedOrSourceKey
        /\ RenamedUnderTarget
        /\ \A k \in Keys(input) \ ({k_link, k_respdate, k_year, k_date} \cup RenameSources) :
              KeepsValue(k)

\* C27, amended: the map cleanup returns has no link, respdate, year or
\* rename-source key, every renamed value is under its target name, taking
\* the place of a value the input had under that name, and every field that
\* is not dropped, renamed, composed or stored under the target name of a
\* rename that took place keeps its value.
C27_CleanupKeys ==
    Returned =>
        /\ NoDroppedOrSourceKey
        /\ RenamedUnderTarget
        /\ \A k \in Keys(input) \ ({k_link, k_respdate, k_year} \cup RenameSources
                                      \cup Rewritten) :
              KeepsValue(k)

\* C27, its case: the input has link, solnbr, desc, email 'e' and address
\* 'a'; the map returned has the address under email and the solnbr under
\* solicitation_number.
C27_Witness ==
    /\ Returned
    /\ {k_link, k_desc, Renames[1][1], Renames[1][2], Renames[12][1]} \subseteq Keys(input)
    /\ DictGet(input, Renames[1][2]) # DictGet(input, Renames[1][1])
    /\ DictGet(output.record, Renames[1][2]) = DictGet(input, Renames[1][1])
    /\ DictGet(output.record, Renames[12][2]) = DictGet(input, Renames[12][1])
    /\ DictGet(output.record, k_desc) = DictGet(input, k_desc)

(***************************************************************************)
(* SpecParse: parse_nightly applied to PRESOL records: the record markers, *)
(* a date and a year before or after the body, and a body of at most       *)
(* MaxBody lines drawn from BodyLines.                                     *)
(***************************************************************************)
MaxBody == 3

BodyLines == {l_link, l_email, l_desc, l_url, l_address, l_text, l_para, l_cr}

InitParse ==
    /\ \E body \in SeqUpTo(BodyLines, MaxBody) :
          input \in {<<l_open, l_date, l_year>> \o body \o <<l_close>>,
                     <<l_open>> \o body \o <<l_date, l_year, l_close>>}
    /\ output = NotCalled
    /\ PipelineIdle

ParseNightly ==
    /\ output = NotCalled
    /\ output' = parse_nightly(input, t_PRESOL)
    /\ UNCHANGED <<input, db, disk, tables, log, now, last>>

NextParse == ParseNightly

SpecParse == InitParse /\ [][NextParse]_vars

\* An ordinary field line: it lexes to a tag that is neither DESC, nor a
\* record marker, nor on the ignore list, and has no trailing CR.
IsFieldLine(line) ==
    /\ ~endswith(line, <<"\r">>)
    /\ parse_line(line).exc = "none"
    /\ parse_line(line).tag \notin {t_DESC, t_PRESOL, <<"/">> \o t_PRESOL}
    /\ ~is_ignored_tag(parse_line(line).tag)

\* Line i is the record's only DESC line and nothing after it adds a field
\* but date and year.
IsLoneDescAt(lines, i) ==
    /\ lines[i] = l_desc
    /\ \A j \in 1..Len(lines) : j # i => lines[j] # l_desc
    /\ \A j \in (i + 1)..Len(lines) : lines[j] \in {l_date, l_year, l_close}

\* The record holds 'hello' under key k and under no other of the three
\* DESC keys.
HelloUnder(record, k) ==
    /\ DictHas(record, k)
    /\ DictGet(record, k) = v_hello
    /\ \A o \in {k_desc, k_url_desc, k_email_desc} \ {k} : ~DictHas(record, o)

HashLines == {l_zip1, l_zip2, l_url, l_address}

record_query(nightly) ==
    Bind(parse_nightly(nightly, t_PRESOL),
         LAMBDA parsed :
             IF parsed.exc # "none" THEN parsed
             ELSE Bind(make_query_dict(lower(t_PRESOL), parsed.record),
                       LAMBDA made : [exc |-> "none", query |-> made.query,
                                      dic |-> made.dic]))

InitHash ==
    /\ \E body1, body2 \in SeqUpTo(HashLines, MaxBody) :
          input = [a |-> <<l_open, l_date, l_year>> \o body1 \o <<l_close>>,
                   b |-> <<l_open, l_date, l_year>> \o body2 \o <<l_close>>]
    /\ output = NotCalled
    /\ PipelineIdle

MakeQueryDicts ==
    /\ output = NotCalled
    /\ output' = [exc |-> "none", a |-> record_query(input.a),
                  b |-> record_query(input.b)]
    /\ UNCHANGED <<input, db, disk, tables, log, now, last>>

NextHash == MakeQueryDicts

SpecHash == InitHash /\ [][NextHash]_vars

\* The fields of a dict that make_query_dict returned: all but sha256.
FieldsOf(dic) == SelectSeq(dic, LAMBDA kv : kv[1] # k_sha256)

\* The two dicts map the same fields to the same values.
SameMapping(d1, d2) ==
    {FieldsOf(d1)[i] : i \in 1..Len(FieldsOf(d1))}
        = {FieldsOf(d2)[i] : i \in 1..Len(FieldsOf(d2))}

\* The values of the fields in insertion order, joined as the hash input.
JoinedValues(dic) ==
    join(<<"|">>, [i \in 1..Len(FieldsOf(dic)) |-> FieldsOf(dic)[i][2]])

BothMade ==
    /\ output # NotCalled
    /\ output.a.exc = "none"
    /\ output.b.exc = "none"

\* C14 as stated: two records of the same type with the same field-to-value
\* mapping get the same sha256, whatever the order of their tag lines.
C14_Original ==
    (BothMade /\ SameMapping(output.a.dic, output.b.dic)) =>
        DictGet(output.a.dic, k_sha256) = DictGet(output.b.dic, k_sha256)

\* C14 (amended): the content hash of a parsed record depends on its field
\* values in the order the fields were inserted: two records of the same
\* type with the same field-to-value mapping get the same sha256 exactly
\* when their values, joined by '|' in insertion order, are the same text.
C14_HashFollowsInsertionOrder ==
    (BothMade /\ SameMapping(output.a.dic, output.b.dic)) =>
        (DictGet(output.a.dic, k_sha256) = DictGet(output.b.dic, k_sha256)
            <=> JoinedValues(output.a.dic) = JoinedValues(output.b.dic))

\* C14, its case: two records with the same fields and values whose tag
\* lines came in another order, hashed differently.
C14_Witness ==
    /\ BothMade
    /\ input.a = <<l_open, l_date, l_year, l_zip1, l_url, l_close>>
    /\ input.b = <<l_open, l_date, l_year, l_url, l_zip1, l_close>>
    /\ SameMapping(output.a.dic, output.b.dic)
    /\ DictGet(output.a.dic, k_sha256) # DictGet(output.b.dic, k_sha256)

\* C15: make_query_dict hashes the field values joined by '|' in insertion
\* order and names the columns in that order, sha256 last; two maps with the
\* same keys in the same order and the same values get the same sha256 and
\* the same insert statement.
C15_HashOverInsertionOrder ==
    BothMade =>
        /\ \A r \in {output.a, output.b} :
              /\ DictGet(r.dic, k_sha256) = <<"#">> \o JoinedValues(r.dic)
              /\ r.query.table = lower(t_PRESOL)
              /\ r.query.columns =
                     [i \in 1..Len(FieldsOf(r.dic)) |-> FieldsOf(r.dic)[i][1]]
                         \o <<k_sha256>>
        /\ FieldsOf(output.a.dic) = FieldsOf(output.b.dic) =>
              /\ DictGet(output.a.dic, k_sha256) = DictGet(output.b.dic, k_sha256)
              /\ output.a.query = output.b.query

\* C15, its case: two different records that assemble to the same map of
\* three fields got the same sha256 and the same statement.
C15_Witness ==
    /\ BothMade
    /\ input.a = <<l_open, l_date, l_year, l_zip2, l_url, l_zip1, l_close>>
    /\ input.b = <<l_open, l_date, l_year, l_zip1, l_url, l_close>>
    /\ FieldsOf(output.a.dic) = FieldsOf(output.b.dic)
    /\ Len(FieldsOf(output.a.dic)) = 3
    /\ DictGet(output.a.dic, k_sha256) = DictGet(output.b.dic, k_sha256)
    /\ output.a.query = output.b.query

(***************************************************************************)
(* Properties of the pipeline, checked under Spec.                         *)
(***************************************************************************)
t_presol == lower(t_PRESOL)
t_award == <<"a", "w", "a", "r", "d">>

InSeq(x, seq) == \E i \in 1..Len(seq) : seq[i] = x

Count(message) == Cardinality({i \in 1..Len(log) : log[i].msg = message})

\* C1: when etl_from_filename has run on a file whose records all parsed,
\* running it on the same file again leaves every table exactly as it is:
\* the same rows, in the same number, and the same outcome.
C1_SecondRunChangesNothing ==
    (/\ last.op = "etl_from_filename"
     /\ last.exc \in {"none", "OperationalError"})
    => /\ etl_from_filename(disk[last.arg], tables).tables = tables
       /\ etl_from_filename(disk[last.arg], tables).exc = last.exc

\* C1, its case: a run that loaded both tables from a file of two records.
C1_Witness ==
    /\ last.op = "etl_from_filename"
    /\ last.exc = "none"
    /\ disk[last.arg] = feed_two_tables
    /\ Len(tables[t_presol]) >= 1
    /\ Len(tables[t_award]) = 1

\* C2: whatever runs were made, no record-type table holds two rows with the
\* same sha256.
C2_OneRowPerHash ==
    \A t \in DOMAIN tables :
        \A i, j \in 1..Len(tables[t]) :
            (/\ i # j
             /\ k_sha256 \in DOMAIN tables[t][i].cols
             /\ k_sha256 \in DOMAIN tables[t][j].cols)
            => tables[t][i].cols[k_sha256] # tables[t][j].cols[k_sha256]

\* C2, its case: the directory was loaded with reparse=True after its first
\* file had been parsed already, and the table holds the two presol records
\* the files share.
C2_Witness ==
    /\ last.op = "etl_from_dir"
    /\ last.reparse
    /\ last.exc = "none"
    /\ Count(s_Parsed \o n_feed1) >= 2
    /\ Len(tables[t_presol]) = 2

\* The feed files of a directory: what etl_from_dir does not pass over by
\* name.
FeedNames(dsk) ==
    {f \in DOMAIN dsk : SubSeq(f, 1, 3) = s_FBO
                        /\ SubSeq(f, Len(f) - 3, Len(f)) # s_dotsql}

\* C3: a directory run with reparse=False opens no file that had a
\* "Parsed <fname>" entry in the log when the run began; a run with
\* reparse=True opens every feed file, entry or not, up to the first file
\* that raises.
C3_SkipsParsedUnlessReparse ==
    [][last'.op = "etl_from_dir" =>
          IF last'.reparse
          THEN \A f \in FeedNames(disk) :
                   \/ InSeq(f, last'.opened)
                   \/ /\ last'.exc # "none"
                      /\ StrLess(last'.opened[Len(last'.opened)], f)
          ELSE \A f \in DOMAIN disk :
                   InSeq(f, last'.opened) => ~InSeq(s_Parsed \o f, [i \in 1..Len(log) |-> log[i].msg])
    ]_vars

\* C3, its case: a run with reparse=False passed over the first file, which
\* had its entry, and opened the second, which had none.
C3_Witness ==
    /\ last.op = "etl_from_dir"
    /\ ~last.reparse
    /\ last.exc = "none"
    /\ last.opened = <<n_feed2>>
    /\ n_feed1 \in DOMAIN disk
    /\ Count(s_Parsed \o n_feed1) = 1

\* C4: every operation leaves the log entries it found as they were and in
\* their order; it only adds entries after them.
C4_LogOnlyGrows ==
    [][/\ Len(log') >= Len(log)
       /\ SubSeq(log', 1, Len(log)) = log]_vars

\* C4, its case: the log holds the same message twice, from two runs, and
\* a dedupe of a data table came after.
C4_Witness ==
    /\ last.op = "dedupe"
    /\ \E i, j \in 1..Len(log) : i < j /\ log[i].msg = log[j].msg

\* Position k of the lines is outside every record: what precedes it is
\* blank lines and whole records.
RECURSIVE OutsideAt(_, _)
OutsideAt(lines, k) ==
    \/ k = 1
    \/ k > 1 /\ IsBlank(lines[k - 1]) /\ OutsideAt(lines, k - 1)
    \/ \E a \in 1..(k - 2) : IsTightRecordAt(lines, a, k - 1) /\ OutsideAt(lines, a)

HasStrayLine(lines) ==
    \E k \in 1..Len(lines) :
        /\ OutsideAt(lines, k)
        /\ ~IsBlank(lines[k])
        /\ parse_line(lines[k]).exc # "none"

\* C7: etl_from_filename on a file with a non-blank line outside every
\* record that has no tag raises ParseError and leaves every table, and the
\* log, as they were: no record of the file is written, not even those
\* before the line.
C7_StrayLineAbortsWithoutCommit ==
    [][(/\ last'.op = "etl_from_filename"
        /\ last'.arg \in DOMAIN disk
        /\ HasStrayLine(disk[last'.arg]))
       => /\ last'.exc = "ParseError"
          /\ tables' = tables
          /\ log' = log]_vars

\* C7, its case: the run raised on a file that holds a whole presol record
\* before the line without a tag, and the presol table is empty.
C7_Witness ==
    /\ last.op = "etl_from_filename"
    /\ last.exc = "ParseError"
    /\ disk[last.arg] = feed_junk
    /\ HasStrayLine(feed_junk)
    /\ IsTightRecordAt(feed_junk, 1, 5)
    /\ tables[t_presol] = <<>>

\* C12: in one run, a directory run included, a record of a type without a
\* class stores no row and does not stop the run, and each such tag is
\* warned about once, however many records and files carry it.
C12_OneWarningPerTagPerRun ==
    (/\ last.op \in {"etl_from_filename", "etl_from_dir"}
     /\ last.opened # <<>>
     /\ \A i \in 1..Len(last.opened) :
            /\ last.opened[i] \in DOMAIN disk
            /\ disk[last.opened[i]] \in {feed_unhandled, feed_unhandled_again})
    => /\ last.exc = "none"
       /\ \A i, j \in 1..Len(last.unhandled) :
              i # j => last.unhandled[i] # last.unhandled[j]
       /\ \A t \in DOMAIN tables : t = t_presol \/ tables[t] = <<>>

\* The records of the file that have a class, when the file splits.
ClassRecords(lines) ==
    LET split == get_nightly_records(lines)
    IN  IF split.exc # "none" THEN {}
        ELSE {split.records[i] : i \in {j \in 1..Len(split.records) :
                 /\ parse_line(split.records[j][1]).exc = "none"
                 /\ lower(parse_line(split.records[j][1]).tag)
                        \in DOMAIN FBOTableEntry_classes}}

HasTagLine(record, tag) ==
    \E i \in 2..Len(record) :
        parse_line(record[i]).exc = "none" /\ parse_line(record[i]).tag = tag

\* The file splits into records and one with a class has no DATE line or no
\* YEAR line.
LacksDateOrYear(lines) ==
    \E record \in ClassRecords(lines) :
        ~HasTagLine(record, <<"D", "A", "T", "E">>)
            \/ ~HasTagLine(record, <<"Y", "E", "A", "R">>)

\* The feed files of the directory that sort before fname.
FilesBefore(dsk, fname) ==
    [n \in {m \in DOMAIN dsk : StrLess(m, fname)} |-> dsk[n]]

\* C16: a file with a record that has no date or no year makes cleanup
\* raise; etl_from_filename on it leaves every table as it was, and a
\* directory run stops at it with the tables as the files before it left
\* them and with no "Parsed" entry for it.
C16_MissingDateOrYearAbortsFile ==
    [][\A i \in 1..Len(last'.opened) :
          (/\ last'.op \in {"etl_from_filename", "etl_from_dir"}
           /\ last'.opened[i] \in DOMAIN disk
           /\ LacksDateOrYear(disk[last'.opened[i]]))
          => /\ last'.exc = "KeyError"
             /\ i = Len(last'.opened)
             /\ last'.op = "etl_from_filename" => tables' = tables /\ log' = log
             /\ last'.op = "etl_from_dir" =>
                   /\ tables' = etl_from_dir(db, FilesBefore(disk, last'.opened[i]),
                                             last'.reparse, tables, log, now).tables
                   /\ Cardinality({k \in 1..Len(log') :
                                     log'[k].msg = s_Parsed \o last'.opened[i]})
                        = Count(s_Parsed \o last'.opened[i])
      ]_vars

\* C16, its case: a directory run loaded the first file, raised on the
\* second, whose second record has no date, stored nothing of its first
\* record and logged "Parsed" for the first file only.
C16_Witness ==
    /\ last.op = "etl_from_dir"
    /\ last.exc = "KeyError"
    /\ last.opened = <<n_feed1, n_feed2>>
    /\ disk[n_feed2] = feed_nodate
    /\ LacksDateOrYear(feed_nodate)
    /\ Len(tables[t_presol]) = 1
    /\ Count(s_Parsed \o n_feed1) = 1
    /\ Count(s_Parsed \o n_feed2) = 0

\* Every record of the file parses, and one of them goes to a table that
\* the database does not have.
NeedsMissingTable(lines, tbls) ==
    /\ get_nightly_records(lines).exc = "none"
    /\ build_queries(get_nightly_records(lines).records, 1, <<>>, <<>>).exc = "none"
    /\ \E record \in ClassRecords(lines) :
          lower(parse_line(record[1]).tag) \notin DOMAIN tbls

\* C17: a file with a record for a table the database does not have makes
\* the load raise OperationalError: the table is still absent afterwards,
\* the file is the last one the run opened and it gets no "Parsed" entry.
C17_MissingTableAbortsRun ==
    [][\A i \in 1..Len(last'.opened) :
          (/\ last'.op \in {"etl_from_filename", "etl_from_dir"}
           /\ last'.opened[i] \in DOMAIN disk
           /\ NeedsMissingTable(disk[last'.opened[i]], tables))
          => /\ last'.exc = "OperationalError"
             /\ i = Len(last'.opened)
             /\ DOMAIN tables' = DOMAIN tables
             /\ Cardinality({k \in 1..Len(log') :
                               log'[k].msg = s_Parsed \o last'.opened[i]})
                  = Count(s_Parsed \o last'.opened[i])
      ]_vars

\* C17, its case: a directory run raised on its first file, which holds an
\* award record while the database has no award table, and opened neither
\* the second feed file nor logged "Parsed" for the first.
C17_Witness ==
    /\ last.op = "etl_from_dir"
    /\ last.exc = "OperationalError"
    /\ t_award \notin DOMAIN tables
    /\ last.opened = <<n_feed1>>
    /\ disk[n_feed1] = feed_two_tables
    /\ n_feed2 \in DOMAIN disk
    /\ Count(s_Parsed \o n_feed1) = 0

\* The errors that reading and parsing a file raise, before any write.
ParseLevelErrors == {"ParseError", "KeyError", "ValueError", "SystemExit"}

\* The files the run opened before its last one, loaded one after the
\* other into tbls.
RECURSIVE LoadedInTurn(_, _, _, _)
LoadedInTurn(dsk, names, i, tbls) ==
    IF i >= Len(names) THEN tbls
    ELSE LoadedInTurn(dsk, names, i + 1, etl_from_filename(dsk[names[i]], tbls).tables)

\* C19: when a directory run stops at a file on a parse-level error, the
\* tables hold what the files opened before it stored, on top of the rows
\* that were there, and the log holds its old entries followed by one
\* "Parsed" entry for each of those files: nothing of them is taken back.
C19_EarlierFilesStayCommitted ==
    [][(/\ last'.op = "etl_from_dir"
        /\ last'.exc \in ParseLevelErrors)
       => /\ last'.opened # <<>>
          /\ tables' = LoadedInTurn(disk, last'.opened, 1, tables)
          /\ \A t \in DOMAIN tables :
                SubSeq(tables'[t], 1, Len(tables[t])) = tables[t]
          /\ Len(log') = Len(log) + Len(last'.opened) - 1
          /\ SubSeq(log', 1, Len(log)) = log
          /\ \A i \in 1..(Len(last'.opened) - 1) :
                /\ log'[Len(log) + i].msg = s_Parsed \o last'.opened[i]
                /\ log'[Len(log) + i].datatype = s_nightly
      ]_vars

\* C19, its case: a directory run loaded the two records of its first file
\* and logged it, then stopped at the line without a tag in the second
\* file; the two rows and the entry are there.
C19_Witness ==
    /\ last.op = "etl_from_dir"
    /\ last.exc = "ParseError"
    /\ last.opened = <<n_feed1, n_feed2>>
    /\ disk[n_feed1] = feed_overlap
    /\ disk[n_feed2] = feed_junk
    /\ Len(tables[t_presol]) = 2
    /\ log # <<>>
    /\ log[Len(log)].msg = s_Parsed \o n_feed1

\* C20: etl_from_filename returns the count of the records it loaded and
\* etl_from_dir returns the list of the files it processed.
C20_ReturnsCountAndFiles ==
    /\ (last.op = "etl_from_filename" /\ last.exc = "none")
          => \E count \in 0..MaxLines : last.ret = Some(count)
    /\ (last.op = "etl_from_dir" /\ last.exc = "none")
          => last.ret = Some(last.opened)

(***************************************************************************)
(* SpecDedupe: dedupe applied to every table of at most MaxRows rows drawn *)
(* from RowContents that UNIQUE (sha256) admits: rows without a sha256     *)
(* may repeat, a sha256 may not.                                           *)
(***************************************************************************)
MaxRows == 4

RowContents == {
    (f_zip :> <<"1">>),
    (f_zip :> <<"2">>),
    (f_zip :> <<"1">>) @@ (k_sha256 :> <<"#", "1">>),
    (f_zip :> <<"1">>) @@ (f_date :> <<"x">>)
}

InitDedupe ==
    /\ \E n \in 0..MaxRows : \E cs \in [1..n -> RowContents] :
          /\ \A i, j \in 1..n :
                (i # j /\ k_sha256 \in DOMAIN cs[i] /\ k_sha256 \in DOMAIN cs[j])
                => cs[i][k_sha256] # cs[j][k_sha256]
          /\ input = [i \in 1..n |-> [rowid |-> i, cols |-> cs[i]]]
    /\ output = NotCalled
    /\ PipelineIdle

DedupeRows ==
    /\ output = NotCalled
    /\ output' = [exc |-> "none", rows |-> dedupe(input)]
    /\ UNCHANGED <<input, db, disk, tables, log, now, last>>

NextDedupe == DedupeRows

SpecDedupe == InitDedupe /\ [][NextDedupe]_vars

\* The rows of the table that are equal to row i in every column.
Group(rows, i) == {j \in 1..Len(rows) : rows[j].cols = rows[i].cols}

\* C13: after dedupe, of every group of rows equal in every column exactly
\* one is left, the one with the greatest rowid; a row without a duplicate
\* is left as it was; no other row appears and the order is kept.
C13_KeepsGreatestRowid ==
    output # NotCalled =>
        /\ \A i \in 1..Len(input) :
              LET top == CHOOSE j \in Group(input, i) :
                             \A k \in Group(input, i) : input[k].rowid <= input[j].rowid
              IN  {k \in 1..Len(output.rows) : output.rows[k].cols = input[i].cols}
                      = {k \in 1..Len(output.rows) : output.rows[k] = input[top]}
                  /\ Cardinality({k \in 1..Len(output.rows) : output.rows[k] = input[top]}) = 1
        /\ \A k \in 1..Len(output.rows) : \E i \in 1..Len(input) : output.rows[k] = input[i]
        /\ \A k \in 1..(Len(output.rows) - 1) : output.rows[k].rowid < output.rows[k + 1].rowid

\* C13, its case: a table with a row three times, a row twice and a single
\* row has been swept down to three rows.
C13_Witness ==
    /\ output # NotCalled
    /\ Len(input) = 4
    /\ input[1].cols = input[3].cols
    /\ input[2].cols # input[1].cols
    /\ input[4].cols = input[1].cols
    /\ Len(output.rows) = 2
    /\ output.rows[1] = input[2]
    /\ output.rows[2] = input[4]

(***************************************************************************)
(* SpecBatch: write_dict_many_query called with a statement and a batch of *)
(* at most MaxBatch dicts, one of which lacks a column of the statement,   *)
(* and DBConn.log called after it on the same connection.  tables is what  *)
(* the connection sees; output.committed is what the database file holds.  *)
(***************************************************************************)
MaxBatch == 3

BatchDicts == {
    <<<<f_zip, <<"1">>>>, <<k_sha256, <<"#", "1">>>>>>,
    <<<<f_zip, <<"2">>>>, <<k_sha256, <<"#", "2">>>>>>,
    <<<<k_sha256, <<"#", "3">>>>>>
}

BatchQueries == {
    [table |-> lower(t_PRESOL), columns |-> <<f_zip, k_sha256>>],
    [table |-> lower(t_PRESOL), columns |-> <<<<"b", "o", "g", "u", "s">>, k_sha256>>]
}

InitBatch ==
    /\ \E query \in BatchQueries : \E dics \in SeqUpTo(BatchDicts, MaxBatch) :
          input = [query |-> query, dics |-> dics]
    /\ output = NotCalled
    /\ db \in DBClasses
    /\ disk = <<>>
    /\ tables = [t \in DOMAIN FBOTableEntry_classes |-> <<>>]
    /\ log = <<>>
    /\ now = 0
    /\ last = [op |-> "none"]

WriteDictManyQuery ==
    /\ output = NotCalled
    /\ \E r \in {write_dict_many_query(tables, input.query, input.dics)} :
          /\ tables' = r.tables
          /\ output' = [exc |-> r.exc,
                        committed |-> IF r.commit THEN r.tables ELSE tables,
                        step |-> "written"]
    /\ UNCHANGED <<input, db, disk, log, now, last>>

\* DBConn.log after the batch: its commit ends the connection's open
\* transaction, whatever that holds.
LogAfterBatch ==
    /\ output # NotCalled
    /\ output.step = "written"
    /\ log' = log_insert(log, now, s_nightly, s_note)
    /\ now' = now + 1
    /\ output' = [output EXCEPT !.committed = tables, !.step = "logged"]
    /\ UNCHANGED <<input, db, disk, tables, last>>

NextBatch == WriteDictManyQuery \/ LogAfterBatch

SpecBatch == InitBatch /\ [][NextBatch]_vars

StaleDisks == {
    <<>>,
    (n_feed1 :> feed_overlap),
    (n_feed2 :> feed_overlap),
    (n_feed2 :> feed_two_tables)
}

LogEntry(clock, message) == [datetime |-> clock, datatype |-> s_nightly, msg |-> message]

\* No entry; the entry of an earlier download of the file; the entry that
\* download() writes, which names the path and the url; the entry of
\* another file.
StaleLogs == {
    <<>>,
    <<LogEntry(0, s_Downloaded \o n_feed2)>>,
    <<LogEntry(0, s_Downloaded \o path_join(s_datadir, n_feed2) \o s_from
                      \o s_ftp \o s_host \o n_feed2)>>,
    <<LogEntry(0, s_Downloaded \o n_feed1)>>
}

InitStale ==
    /\ \E scheme \in {s_ftp, s_http} : \E check_log \in BOOLEAN :
       \E remote \in Remotes :
          input = [fname |-> Pair(scheme, n_feed2).fname,
                   url |-> Pair(scheme, n_feed2).url,
                   check_log |-> check_log, remote |-> remote]
    /\ output = NotCalled
    /\ db = db_model_FBO
    /\ disk \in StaleDisks
    /\ tables = <<>>
    /\ log \in StaleLogs
    /\ now = Len(log)
    /\ last = NoOp

FnameIsStale ==
    /\ output = NotCalled
    /\ \E r \in {fname_is_stale(disk, log, now, s_nightly, input.fname, input.url,
                                input.check_log, input.remote)} :
          /\ output' = [exc |-> r.exc, op |-> "fname_is_stale", ret |-> r.stale]
          /\ log' = r.log
          /\ now' = r.now
    /\ UNCHANGED <<input, db, disk, tables, last>>

DloadIfStale ==
    /\ output = NotCalled
    /\ \E r \in {dload_if_stale(disk, log, now, s_nightly, input.fname, input.url,
                                input.check_log, input.remote)} :
          /\ output' = [exc |-> r.exc, op |-> "dload_if_stale", ret |-> r.ret]
          /\ disk' = r.disk
          /\ log' = r.log
          /\ now' = r.now
    /\ UNCHANGED <<input, db, tables, last>>

NextStale == FnameIsStale \/ DloadIfStale

SpecStale == InitStale /\ [][NextStale]_vars

\* The log holds an entry "Downloaded <basename>" for the file.
HasDownloadedEntry(entries, fname) ==
    \E i \in 1..Len(entries) : entries[i].msg = s_Downloaded \o basename(fname)

\* C21: fname_is_stale returns True when the local file does not exist; when
\* it exists, check_log is True and the log holds "Downloaded <basename>",
\* it returns False whatever the remote end is, also one that is down, and
\* writes no log entry, and dload_if_stale then returns False and leaves
\* the file as it is.
C21_LogEntryGatesDownload ==
    [][/\ (output'.op = "fname_is_stale" /\ basename(input.fname) \notin DOMAIN disk)
          => output'.exc = "none" /\ output'.ret = TRUE /\ log' = log
       /\ (/\ output'.op \in {"fname_is_stale", "dload_if_stale"}
           /\ basename(input.fname) \in DOMAIN disk
           /\ input.check_log
           /\ HasDownloadedEntry(log, input.fname))
          => /\ output'.exc = "none"
             /\ output'.ret = FALSE
             /\ log' = log
             /\ disk' = disk
      ]_vars

\* C21, its case: the file is there, the log has its entry and the ftp
\* server is down; dload_if_stale with check_log returned False without an
\* error and left the file and the log alone.
C21_Witness ==
    /\ output # NotCalled
    /\ output.op = "dload_if_stale"
    /\ output.exc = "none"
    /\ output.ret = FALSE
    /\ input.check_log
    /\ startswith(input.url, s_ftp)
    /\ input.remote.status = "down"
    /\ disk = (n_feed2 :> feed_overlap)
    /\ log = <<LogEntry(0, s_Downloaded \o n_feed2)>>

(***************************************************************************)
(* SpecAssemble: parse_nightly on the records of SpecParse, one turn of    *)
(* its loop at a time and cleanup at the end.  output holds the loop's     *)
(* locals: the index of the next line, prev, prevprev and record.          *)
(***************************************************************************)
l_zip_cr == <<"<", "Z", "I", "P", ">", "1", "\r">>
l_para_end == <<"<", "/", "p", ">">>

\* The body lines of SpecParse, a line with a tag and a trailing CR, and a
\* closing tag of the ignore list.
AssembleLines == BodyLines \cup {l_zip_cr, l_para_end}

InitAssemble ==
    /\ \E body \in SeqUpTo(AssembleLines, MaxBody) :
          input \in {<<l_open, l_date, l_year>> \o body \o <<l_close>>,
                     <<l_open>> \o body \o <<l_date, l_year, l_close>>}
    /\ output = [exc |-> "none", i |-> 1, prev |-> None, prevprev |-> None,
                 record |-> <<>>, done |-> FALSE]
    /\ PipelineIdle

AssembleLine ==
    /\ output.exc = "none"
    /\ output.i <= Len(input)
    /\ \E t \in {parse_turn(input[output.i], t_PRESOL, output.prev,
                            output.prevprev, output.record)} :
          output' = [exc |-> t.exc, i |-> output.i + 1, prev |-> t.prev,
                     prevprev |-> t.prevprev, record |-> t.record, done |-> FALSE]
    /\ UNCHANGED <<input, db, disk, tables, log, now, last>>

AssembleCleanup ==
    /\ output.exc = "none"
    /\ output.i = Len(input) + 1
    /\ ~output.done
    /\ \E c \in {cleanup(output.record)} :
          output' = [output EXCEPT !.exc = c.exc, !.record = c.record, !.done = TRUE]
    /\ UNCHANGED <<input, db, disk, tables, log, now, last>>

NextAssemble == AssembleLine \/ AssembleCleanup

SpecAssemble == InitAssemble /\ [][NextAssemble]_vars

\* The step is a turn of the loop on the line at output.i.
TurnOn(line) ==
    /\ output.i <= Len(input)
    /\ input[output.i] = line
    /\ output'.i = output.i + 1

\* The line is taken as the continuation of a value.
IsContinuationLine(line) ==
    endswith(line, <<"\r">>) \/ parse_line(line).exc # "none"

\* The line has the tag and is no continuation line.
HasTag(line, tag) ==
    ~IsContinuationLine(line) /\ parse_line(line).tag = tag

\* C22: a DESC line stores its value under url_desc when prevprev is LINK,
\* under email_desc when prevprev is EMAIL, and under desc in every other
\* case, and changes nothing else of the record.
C22_DescKeyFollowsPrevprev ==
    [][\A line \in {l_desc} :
          TurnOn(line) =>
              /\ output'.exc = "none"
              /\ output'.record =
                     DictSet(output.record,
                             IF output.prevprev = Some(<<"L", "I", "N", "K">>)
                             THEN <<"u", "r", "l", "_", "d", "e", "s", "c">>
                             ELSE IF output.prevprev = Some(<<"E", "M", "A", "I", "L">>)
                             THEN <<"e", "m", "a", "i", "l", "_", "d", "e", "s", "c">>
                             ELSE <<"d", "e", "s", "c">>,
                             v_hello)
      ]_vars

\* C22, its case: the DESC line came with prevprev = EMAIL and its value is
\* under email_desc.
C22_Witness ==
    /\ output.exc = "none"
    /\ output.i > 1
    /\ output.i <= Len(input) + 1
    /\ ~output.done
    /\ input[output.i - 1] = l_desc
    /\ output.prevprev = Some(t_EMAIL)
    /\ output.prev = Some(k_email_desc)
    /\ DictHas(output.record, k_email_desc)
    /\ DictGet(output.record, k_email_desc) = v_hello
    /\ ~DictHas(output.record, k_desc)

\* The line stores a value under a field name: it has a tag that is neither
\* a record marker nor on the ignore list.
StoresField(line) ==
    /\ ~IsContinuationLine(line)
    /\ parse_line(line).tag \notin {t_PRESOL, <<"/">> \o t_PRESOL}
    /\ ~is_ignored_tag(parse_line(line).tag)

\* C23: every line that stores a value under a field name moves the history
\* on, prevprev := prev and prev := tag, and a continuation line leaves prev
\* and prevprev as they are.
C23_HistoryAdvances ==
    [][\A line \in AssembleLines \cup {l_date, l_year} :
          (TurnOn(line) /\ output'.exc = "none") =>
              /\ StoresField(line) =>
                    /\ output'.prevprev = output.prev
                    /\ output'.prev = Some(parse_line(line).tag)
              /\ IsContinuationLine(line) =>
                    /\ output'.prevprev = output.prevprev
                    /\ output'.prev = output.prev
      ]_vars

\* The record after the turn is the record before it with text added to
\* the value of the field prev names: the same keys in the same order and
\* every other value as it was.
AppendedToCurrent(text) ==
    /\ output'.exc = "none"
    /\ Len(output'.record) = Len(output.record)
    /\ \A k \in 1..Len(output.record) :
          /\ output'.record[k][1] = output.record[k][1]
          /\ output'.record[k][2] =
                 IF output.record[k][1] = lower(output.prev[1])
                 THEN output.record[k][2] \o text
                 ELSE output.record[k][2]
    /\ \E k \in 1..Len(output.record) : output.record[k][1] = lower(output.prev[1])
    /\ output'.prev = output.prev
    /\ output'.prevprev = output.prevprev

\* C24: a line that ends with a carriage return, tag or not, or that has no
\* tag is appended as it is to the value of the field stored last: no key
\* is added, no other value changes and the history stays.  Before the
\* first field there is nothing to append to and the turn raises.
C24_ContinuationAppendsVerbatim ==
    [][\A line \in {l_text, l_cr, l_zip_cr} :
          TurnOn(line) =>
              IF output.prev = None
              THEN output'.exc = "AttributeError"
              ELSE AppendedToCurrent(line)
      ]_vars

\* C24, its case: '<ZIP>1' with a trailing CR came after '<URL>u' and is
\* part of the url value; there is no zip key.
C24_Witness ==
    /\ output.exc = "none"
    /\ ~output.done
    /\ output.i > 2
    /\ output.i <= Len(input) + 1
    /\ input[output.i - 2] = l_url
    /\ input[output.i - 1] = l_zip_cr
    /\ DictGet(output.record, <<"u", "r", "l">>) = <<"u">> \o l_zip_cr
    /\ ~DictHas(output.record, f_zip)
    /\ output.prev = Some(<<"U", "R", "L">>)

\* C25: a line whose tag is on the ignore list, with or without a leading
\* '/', starts no field: the whole line, after a line break, is appended to
\* the value of the field stored last.
C25_IgnoredTagAppendsRawLine ==
    [][\A line \in {l_para, l_para_end} :
          TurnOn(line) =>
              IF output.prev = None
              THEN output'.exc = "AttributeError"
              ELSE /\ AppendedToCurrent(<<"\n">> \o line)
                   /\ ~DictHas(output'.record, <<"p">>)
                   /\ ~DictHas(output'.record, <<"/", "p">>)
      ]_vars

\* C25, its case: '<p>para' and '</p>' came after '<URL>u' and both are in
\* the url value.
C25_Witness ==
    /\ output.exc = "none"
    /\ ~output.done
    /\ output.i > 3
    /\ output.i <= Len(input) + 1
    /\ input[output.i - 3] = l_url
    /\ input[output.i - 2] = l_para
    /\ input[output.i - 1] = l_para_end
    /\ DictGet(output.record, <<"u", "r", "l">>)
           = <<"u">> \o <<"\n">> \o l_para \o <<"\n">> \o l_para_end
    /\ Keys(output.record) \subseteq {<<"u", "r", "l">>, k_date, k_year}

\* C26: a tag that is neither DESC nor on the ignore list stores its value
\* under the lower-cased tag; when the key is there already, its value, with
\* whatever was appended to it, is replaced and keeps its place, and every
\* other field stays as it was.
C26_LastOccurrenceWins ==
    [][\A line \in {l_link, l_email, l_url, l_address, l_date, l_year} :
          TurnOn(line) =>
              LET key == lower(parse_line(line).tag)
                  old == output.record
                  new == output'.record
              IN  /\ output'.exc = "none"
                  /\ DictHas(new, key)
                  /\ DictGet(new, key) = parse_line(line).val
                  /\ Len(new) = IF DictHas(old, key) THEN Len(old) ELSE Len(old) + 1
                  /\ \A k \in 1..Len(old) :
                        /\ new[k][1] = old[k][1]
                        /\ old[k][1] # key => new[k][2] = old[k][2]
      ]_vars

\* C26, its case: '<URL>u', a line of text, '<URL>u' again: the url value
\* is 'u' alone, the text that was appended to the first is gone.
C26_Witness ==
    /\ output.exc = "none"
    /\ ~output.done
    /\ output.i > 3
    /\ output.i <= Len(input) + 1
    /\ input[output.i - 3] = l_url
    /\ input[output.i - 2] = l_text
    /\ input[output.i - 1] = l_url
    /\ DictGet(output.record, <<"u", "r", "l">>) = <<"u">>

\* C34: while the loop runs, prev is None exactly as long as the record is
\* empty, and when prev is set its lower-cased form is a key of the record,
\* so that no turn raises KeyError; a line that ends with a carriage return,
\* has no tag or has a tag of the ignore list, met while prev is None, makes
\* the turn raise AttributeError.
C34_PrevNamesAField ==
    [][/\ (output'.exc = "none" /\ ~output'.done) =>
             /\ (output'.prev = None) = (output'.record = <<>>)
             /\ output'.prev # None => DictHas(output'.record, lower(output'.prev[1]))
       /\ ~output.done => output'.exc # "KeyError"
       /\ \A line \in {l_text, l_cr, l_zip_cr, l_para, l_para_end} :
             (TurnOn(line) /\ output.prev = None) =>
                 /\ output'.exc = "AttributeError"
                 /\ output'.record = <<>>
      ]_vars

\* C34, its case: the line after '<PRESOL>' was '</p>', before any field:
\* the turn raised AttributeError.
C34_Witness ==
    /\ output.exc = "AttributeError"
    /\ output.i = 3
    /\ input[1] = l_open
    /\ input[2] = l_para_end
    /\ output.prev = None

(***************************************************************************)
(* SpecGroup: the two loops of etl_from_filename over a file of at most    *)
(* MaxRecords records: PRESOL records that carry zip, url or both in       *)
(* either order, and an AWARD record.  output.batches are the calls of     *)
(* write_dict_many_query in their order, each with its statement and its   *)
(* dicts; each call is one executemany and one commit.                     *)
(***************************************************************************)
MaxRecords == 3

GroupRecords == {
    rec_presol1,
    rec_presol2,
    <<l_open, l_date, l_year, l_url, l_close>>,
    <<l_open, l_date, l_year, l_zip1, l_url, l_close>>,
    <<l_open, l_date, l_year, l_url, l_zip1, l_close>>,
    rec_award
}

InitGroup ==
    /\ input \in SeqUpTo(GroupRecords, MaxRecords)
    /\ output = NotCalled
    /\ db = db_model_FBO
    /\ disk = <<>>
    /\ tables = [t \in DOMAIN FBOTableEntry_classes |-> <<>>]
    /\ log = <<>>
    /\ now = 0
    /\ last = NoOp

LoadRecords ==
    /\ output = NotCalled
    /\ \E built \in {build_queries(input, 1, <<>>, <<>>)} :
       \E r \in {load_records(input, tables)} :
          /\ output' = [exc |-> r.exc, batches |-> built.queries]
          /\ tables' = r.tables
    /\ UNCHANGED <<input, db, disk, log, now, last>>

NextGroup == LoadRecords

SpecGroup == InitGroup /\ [][NextGroup]_vars

\* The statement and the dict make_query_dict gives for a record of the file.
QueryOf(rec) ==
    LET tag == parse_line(rec[1]).tag
    IN  make_query_dict(lower(tag), parse_nightly(rec, upper(tag)).record)

\* The dicts of the records of the file that have the statement q, in file
\* order.
DicsFor(q) ==
    LET sel == SelectSeq(input, LAMBDA rec : QueryOf(rec).query = q)
    IN  [k \in 1..Len(sel) |-> QueryOf(sel[k]).dic]

Loaded == output # NotCalled /\ output.exc = "none"

\* C28 as it is stated: one batch per table, whatever fields the records
\* carry.
C28_Original ==
    Loaded =>
        \A i, j \in 1..Len(output.batches) :
            output.batches[i].query.table = output.batches[j].query.table => i = j

\* C28, amended: etl_from_filename groups the records by insert statement,
\* the table with the list of the record's field names in their order: there
\* is one batch for each statement that occurs, it holds the dicts of all
\* records of the file with that statement in file order, and it is written
\* in one call; records of one table with different field lists are in
\* different batches.  Every record is in its table afterwards.
C28_OneBatchPerStatement ==
    Loaded =>
        /\ \A i, j \in 1..Len(output.batches) :
              output.batches[i].query = output.batches[j].query => i = j
        /\ {output.batches[i].query : i \in 1..Len(output.batches)}
               = {QueryOf(input[r]).query : r \in 1..Len(input)}
        /\ \A i \in 1..Len(output.batches) :
              output.batches[i].records = DicsFor(output.batches[i].query)
        /\ \A r \in 1..Len(input) :
              \E k \in 1..Len(tables[QueryOf(input[r]).query.table]) :
                  tables[QueryOf(input[r]).query.table][k].cols[k_sha256]
                      = DictGet(QueryOf(input[r]).dic, k_sha256)

\* C28, its case: a file of three PRESOL records, two with a zip and one
\* with a url, was loaded in two batches for the presol table: the first
\* with the two zip records, the second with the url record.
C28_Witness ==
    /\ Loaded
    /\ Len(input) = 3
    /\ Len(output.batches) = 2
    /\ output.batches[1].query.table = lower(t_PRESOL)
    /\ output.batches[2].query.table = lower(t_PRESOL)
    /\ Len(output.batches[1].records) = 2
    /\ output.batches[1].query.columns # output.batches[2].query.columns
    /\ Len(tables[lower(t_PRESOL)]) = 3

(***************************************************************************)
(* The pipeline: a file of a directory run is completed or aborted.        *)
(***************************************************************************)
\* The row of the record is in the table of its class.
Stored(tbls, rec) ==
    \E k \in 1..Len(tbls[QueryOf(rec).query.table]) :
        tbls[QueryOf(rec).query.table][k].cols[k_sha256]
            = DictGet(QueryOf(rec).dic, k_sha256)

\* C29: a directory run adds to the log one "Parsed" entry for each file it
\* completed, in the order of the sorted listing, and none for any other
\* file; a completed file is one whose load returned, with every record of
\* a known class stored by then.  When the run raises at a file, that file
\* is the last one opened, it gets no entry, the files before it are
\* completed and no file after it in the listing is opened.
C29_ParsedOnlyForCompletedFiles ==
    [][last'.op = "etl_from_dir" =>
          LET opened == last'.opened
              done == IF last'.exc = "none" \/ opened = <<>>
                      THEN Len(opened) ELSE Len(opened) - 1
              before(i) == LoadedInTurn(disk, SubSeq(opened, 1, i), 1, tables)
          IN  /\ Len(log') = Len(log) + done
              /\ \A k \in 1..Len(log) : log'[k] = log[k]
              /\ \A i, j \in 1..Len(opened) : i < j => StrLess(opened[i], opened[j])
              /\ \A i \in 1..done :
                    /\ log'[Len(log) + i].msg = s_Parsed \o opened[i]
                    /\ etl_from_filename(disk[opened[i]], before(i)).exc = "none"
                    /\ \A rec \in ClassRecords(disk[opened[i]]) :
                          /\ Stored(etl_from_filename(disk[opened[i]], before(i)).tables, rec)
                          /\ Stored(tables', rec)
              /\ (last'.exc # "none" /\ opened # <<>>) =>
                    /\ etl_from_filename(disk[opened[Len(opened)]],
                                         before(Len(opened))).exc = last'.exc
                    /\ \A g \in DOMAIN disk :
                          StrLess(opened[Len(opened)], g) =>
                              \A i \in 1..Len(opened) : opened[i] # g
      ]_vars

\* C29, its case: a directory run raised OperationalError at its first
\* file, whose second record has a field that is no column: the batch of
\* the first record is in the table, the file has no "Parsed" entry and the
\* second feed file was not opened and has none either.
C29_Witness ==
    /\ last.op = "etl_from_dir"
    /\ last.exc = "OperationalError"
    /\ last.opened = <<n_feed1>>
    /\ disk[n_feed1] = feed_bogus
    /\ n_feed2 \in DOMAIN disk
    /\ Len(tables[t_presol]) = 1
    /\ Count(s_Parsed \o n_feed1) = 0
    /\ Count(s_Parsed \o n_feed2) = 0

(***************************************************************************)
(* SpecStale: the http test of a file that is up to date.                  *)
(***************************************************************************)
\* The file is there, the log has no "Downloaded" entry for it, and the http
\* server answers with the size of the file and a time that is not newer.
UpToDateOverHttp ==
    /\ startswith(input.url, s_http)
    /\ basename(input.fname) \in DOMAIN disk
    /\ ~HasDownloadedEntry(log, input.fname)
    /\ input.remote.status = "ok"
    /\ getsize(input.remote.body) = getsize(disk[basename(input.fname)])
    /\ ~input.remote.newer

\* C30: fname_is_stale on a file that is up to date over http, with no
\* "Downloaded" entry in the log, reports not stale and leaves a
\* "Downloaded <basename>" entry in the log, so that a later call with
\* check_log finds it.
C30_UpToDateHttpFileIsLogged ==
    [][(output'.op = "fname_is_stale" /\ UpToDateOverHttp)
       => /\ output'.exc = "none"
          /\ output'.ret = FALSE
          /\ HasDownloadedEntry(log', input.fname)
      ]_vars

(***************************************************************************)
(* SpecStale: an ftp transfer that breaks off.                             *)
(***************************************************************************)
\* dload_if_stale gets as far as the transfer over ftp, and the transfer
\* raises: the staleness test says stale, the server is up and retrbinary
\* fails.
FtpTransferRaises ==
    /\ startswith(input.url, s_ftp)
    /\ fname_is_stale(disk, log, now, s_nightly, input.fname, input.url,
                      input.check_log, input.remote).exc = "none"
    /\ fname_is_stale(disk, log, now, s_nightly, input.fname, input.url,
                      input.check_log, input.remote).stale
    /\ input.remote.status = "ok"
    /\ input.remote.transfer # "ok"

\* C31: when the ftp transfer raises, dload_if_stale raises the error, the
\* file is not on disk afterwards, whether it was there before or not, no
\* other file is touched, the log gets no entry, and fname_is_stale then
\* says stale for the file whatever check_log and the server are.
C31_FailedFtpTransferLeavesNoFile ==
    [][(output'.op = "dload_if_stale" /\ FtpTransferRaises)
       => /\ output'.exc = "ftplib.Error"
          /\ basename(input.fname) \notin DOMAIN disk'
          /\ \A f \in DOMAIN disk \ {basename(input.fname)} :
                f \in DOMAIN disk' /\ disk'[f] = disk[f]
          /\ log' = log
          /\ \A check_log \in BOOLEAN : \A remote \in Remotes :
                LET again == fname_is_stale(disk', log', now', s_nightly, input.fname,
                                            input.url, check_log, remote)
                IN  again.exc = "none" /\ again.stale
      ]_vars

\* C31, its case: dload_if_stale without check_log went over ftp to a
\* server that is up, the transfer broke off, and the directory holds no
\* file; the log still has the entry of an earlier download.
C31_Witness ==
    /\ output # NotCalled
    /\ output.op = "dload_if_stale"
    /\ output.exc = "ftplib.Error"
    /\ startswith(input.url, s_ftp)
    /\ input.remote.status = "ok"
    /\ input.remote.transfer = "fail"
    /\ ~input.check_log
    /\ HasDownloadedEntry(log, input.fname)
    /\ disk = <<>>

(***************************************************************************)
(* SpecGoose: goose_write of sql.DBConn and of model.SQL (through its      *)
(* subclass model.FBO) called up to MaxCalls times on a migrations         *)
(* directory in which each migration file is missing, as generated or      *)
(* different, with files edited or removed between the calls.  disk is the *)
(* directory <dirname>/<driver>; the SQL statements are shortened to their *)
(* heads, and of the record classes Award and Presol are taken.            *)
(***************************************************************************)
MaxCalls == 3

s_goose_up == <<"-", "-", " ", "+", "g", "o", "o", "s", "e", " ", "U", "p", "\n">>
s_goose_down == <<"\n", "-", "-", " ", "+", "g", "o", "o", "s", "e", " ", "D", "o", "w", "n", "\n">>
s_sqlite3 == <<"s", "q", "l", "i", "t", "e", "3">>
s_postgres == <<"p", "o", "s", "t", "g", "r", "e", "s">>
goose_dir == <<"d", "b", "/", "s", "q", "l", "i", "t", "e", "3">>

\* DBConn.migrations()
DBConn_migrations ==
    <<<<<<"0", "0", "1", "_", "c", "r", "e", "a", "t", "e", "_", "l", "o", "g", ".", "s", "q", "l">>,
        <<"C", "R", "E", "A", "T", "E", " ", "T", "A", "B", "L", "E", " ", "I", "F", " ", "N", "O", "T", " ", "E", "X", "I", "S", "T", "S", " ", "l", "o", "g">>,
        <<"D", "R", "O", "P", " ", "T", "A", "B", "L", "E", " ", "l", "o", "g", ";">>>>>>

\* FBOTableEntry.sql_table(), its head
sql_table(record_type) == <<"C", "R", "E", "A", "T", "E", " ", "T", "A", "B", "L", "E", " ", "I", "F", " ", "N", "O", "T", " ", "E", "X", "I", "S", "T", "S", " ">> \o record_type

\* migrations() of a record class with the number of its file.
class_migrations(number, record_type) ==
    <<<<number \o <<"_">> \o record_type \o <<"_", "t", "a", "b", "l", "e", ".", "s", "q", "l">>,
        sql_table(record_type),
        <<"D", "R", "O", "P", " ", "T", "A", "B", "L", "E", " ">> \o record_type \o <<";">>>>>>

\* "-- +goose Up\n%s\n-- +goose Down\n%s\n" % (up, down)
goose_text(up, down) == s_goose_up \o up \o s_goose_down \o down \o <<"\n">>

\* migrations[migration[0]] = ... for the migrations from index i on.
RECURSIVE goose_fold(_, _, _)
goose_fold(migs, i, migrations) ==
    IF i > Len(migs) THEN migrations
    ELSE Bind(DictSet(migrations, migs[i][1], goose_text(migs[i][2], migs[i][3])),
              LAMBDA d : goose_fold(migs, i + 1, d))

\* What "for source in migration_sources: for migration in source" visits.
RECURSIVE flatten(_)
flatten(sources) ==
    IF sources = <<>> THEN <<>> ELSE Head(sources) \o flatten(Tail(sources))

\* The elements of a string are its characters, each a string of length one.
chars(str) == [i \in 1..Len(str) |-> <<str[i]>>]

\* SQL.goose() puts self.migrations() and the migrations of the record
\* classes in a list; DBConn.goose() takes self.migrations() itself as the
\* list, so that its sources are the migrations and its migrations are their
\* three strings.
goose(dbc) ==
    IF dbc = db_sql_DBConn
    THEN goose_fold([i \in 1..Len(flatten(DBConn_migrations)) |->
                        chars(flatten(DBConn_migrations)[i])], 1, <<>>)
    ELSE goose_fold(flatten(<<DBConn_migrations,
                              class_migrations(<<"0", "0", "8">>, <<"A", "W", "A", "R", "D">>),
                              class_migrations(<<"0", "0", "2">>, t_PRESOL)>>), 1, <<>>)

\* A platform whose line separator is CR LF.
linesep_crlf == <<"\r", "\n">>

\* os.linesep
linesep == <<"\n">>

\* What open(fname, 'w').write(text) puts in the file: text mode writes the
\* line separator of the platform for every "\n".
RECURSIVE write_text(_)
write_text(text) ==
    IF text = <<>> THEN <<>>
    ELSE (IF Head(text) = "\n" THEN linesep ELSE <<Head(text)>>) \o write_text(Tail(text))

\* u.slurp(fname): the bytes of the file, decoded.
slurp(dsk, name) == dsk[name]

\* The loop over self.goose().items() from index i on.
RECURSIVE goose_write_loop(_, _, _, _)
goose_write_loop(migrations, i, dsk, created) ==
    IF i > Len(migrations) THEN [exc |-> "none", created |-> created, disk |-> dsk]
    ELSE IF migrations[i][1] \in DOMAIN dsk /\ slurp(dsk, migrations[i][1]) = migrations[i][2]
    THEN goose_write_loop(migrations, i + 1, dsk, created)
    ELSE Bind(write_file(dsk, migrations[i][1], write_text(migrations[i][2])),
              LAMBDA written :
                  goose_write_loop(migrations, i + 1, written,
                                   Append(created, path_join(goose_dir, migrations[i][1]))))

\* sql_table() of the log raises for a driver other than sqlite3.
goose_write(dbc, driver, dsk) ==
    IF driver # s_sqlite3
    THEN [exc |-> "UnsupportedDBType", created |-> <<>>, disk |-> dsk]
    ELSE goose_write_loop(goose(dbc), 1, dsk, <<>>)

s_edited == <<"x">>

InitGoose ==
    /\ input \in {[driver |-> s_sqlite3], [driver |-> s_postgres]}
    /\ output = NotCalled
    /\ db \in DBClasses
    /\ \E present \in SUBSET Keys(goose(db)) :
          disk \in [present -> {s_edited}]
                       \cup {[name \in present |-> write_text(DictGet(goose(db), name))]}
                       \cup {[name \in present |->
                                IF name = goose(db)[1][1] THEN s_edited
                                ELSE write_text(DictGet(goose(db), name))]}
    /\ tables = <<>>
    /\ log = <<>>
    /\ now = 0
    /\ last = NoOp

GooseWrite ==
    /\ now < MaxCalls
    /\ \E r \in {goose_write(db, input.driver, disk)} :
          /\ output' = [exc |-> r.exc, op |-> "goose_write", created |-> r.created]
          /\ disk' = r.disk
    /\ now' = now + 1
    /\ UNCHANGED <<input, db, tables, log, last>>

\* Somebody edits a file of the directory between two calls.
EditMigration(name) ==
    /\ now < MaxCalls
    /\ name \in DOMAIN disk
    /\ disk[name] # s_edited
    /\ disk' = write_file(disk, name, s_edited)
    /\ output' = [exc |-> "none", op |-> "edit", created |-> <<>>]
    /\ now' = now + 1
    /\ UNCHANGED <<input, db, tables, log, last>>

\* Somebody removes a file of the directory between two calls.
RemoveMigration(name) ==
    /\ now < MaxCalls
    /\ name \in DOMAIN disk
    /\ disk' = unlink(disk, name)
    /\ output' = [exc |-> "none", op |-> "remove", created |-> <<>>]
    /\ now' = now + 1
    /\ UNCHANGED <<input, db, tables, log, last>>

NextGoose ==
    \/ GooseWrite
    \/ \E name \in Keys(goose(db)) : EditMigration(name)
    \/ \E name \in Keys(goose(db)) : RemoveMigration(name)

SpecGoose == InitGoose /\ [][NextGoose]_vars

\* The migration is not in the directory as generated.
NeedsWriting(dsk, migration) ==
    migration[1] \notin DOMAIN dsk \/ dsk[migration[1]] # migration[2]

\* C32: goose_write writes the migrations that are missing from the
\* directory or differ there from the generated text, and no other file; it
\* returns the paths of those, in the order of goose(); afterwards every
\* migration is there as generated.  A call that follows a call with
\* nothing changed in between writes nothing and returns the empty list.
C32_GooseWriteOnlyWhatDiffers ==
    [][(output'.op = "goose_write" /\ now' = now + 1 /\ input.driver = s_sqlite3)
       => /\ output'.exc = "none"
          /\ output'.created
                 = [i \in 1..Len(SelectSeq(goose(db), LAMBDA m : NeedsWriting(disk, m))) |->
                       path_join(goose_dir,
                                 SelectSeq(goose(db), LAMBDA m : NeedsWriting(disk, m))[i][1])]
          /\ \A name \in DOMAIN disk \ Keys(goose(db)) :
                name \in DOMAIN disk' /\ disk'[name] = disk[name]
          /\ DOMAIN disk' = DOMAIN disk \cup Keys(goose(db))
          /\ \A i \in 1..Len(goose(db)) : ~NeedsWriting(disk', goose(db)[i])
          /\ \A i \in 1..Len(goose(db)) :
                ~NeedsWriting(disk, goose(db)[i]) => disk'[goose(db)[i][1]] = disk[goose(db)[i][1]]
          /\ (output # NotCalled /\ output.op = "goose_write")
                => output'.created = <<>> /\ disk' = disk
      ]_vars

\* C32, its case: the third operation was a call right after a call: it
\* returned the empty list, and the directory holds every migration of
\* model.SQL as generated.
C32_Witness ==
    /\ output # NotCalled
    /\ output.op = "goose_write"
    /\ output.exc = "none"
    /\ output.created = <<>>
    /\ now = 3
    /\ db = db_model_FBO
    /\ DOMAIN disk = Keys(goose(db))
    /\ \A i \in 1..Len(goose(db)) : disk[goose(db)[i][1]] = goose(db)[i][2]

(***************************************************************************)
(* The pipeline: the run after a run that stopped while writing.           *)
(***************************************************************************)
\* A directory run follows a directory run that stopped with a database
\* error at the file it had opened last.
RetryAfterWriteError ==
    /\ last.op = "etl_from_dir"
    /\ last.exc = "OperationalError"
    /\ last.opened # <<>>
    /\ last'.op = "etl_from_dir"
    /\ last'.n = last.n + 1

\* The table of the record's class holds the record's row exactly once.
StoredOnce(tbls, rec) ==
    /\ QueryOf(rec).query.table \in DOMAIN tbls
    /\ Cardinality({k \in 1..Len(tbls[QueryOf(rec).query.table]) :
                       tbls[QueryOf(rec).query.table][k].cols[k_sha256]
                           = DictGet(QueryOf(rec).dic, k_sha256)}) = 1

\* C35: when a directory run stops with a database error while writing a
\* batch of a file, the file gets no "Parsed" entry and the rows written
\* before stay; the following directory run with reparse=False opens that
\* file again and ends with each record of the file exactly once in the
\* table of its class.
C35_RetryLoadsEachRecordOnce ==
    [][/\ (last'.op = "etl_from_dir" /\ last'.exc = "OperationalError"
              /\ last'.opened # <<>>) =>
             LET f == last'.opened[Len(last'.opened)]
             IN  /\ Cardinality({i \in 1..Len(log') : log'[i].msg = s_Parsed \o f})
                       = Count(s_Parsed \o f)
                 /\ \A t \in DOMAIN tables : \A k \in 1..Len(tables[t]) :
                       \E j \in 1..Len(tables'[t]) : tables'[t][j] = tables[t][k]
       /\ (RetryAfterWriteError /\ ~last'.reparse) =>
             LET f == last.opened[Len(last.opened)]
             IN  /\ InSeq(f, last'.opened)
                 /\ last'.exc = "none"
                 /\ \A rec \in ClassRecords(disk[f]) : StoredOnce(tables', rec)
      ]_vars

(***************************************************************************)
(* The pipeline: the run after a run that completed.                       *)
(***************************************************************************)
\* A directory run follows a directory run that returned; the directory is
\* the same in both, as a directory run writes no file.
RunAfterCompletedRun ==
    /\ last.op = "etl_from_dir"
    /\ last.exc = "none"
    /\ last'.op = "etl_from_dir"
    /\ last'.n = last.n + 1

\* The messages the step added to the log.
AddedMessages ==
    [i \in 1..(Len(log') - Len(log)) |-> log'[Len(log) + i].msg]

\* The second run opens nothing, leaves every table and appends nothing.
SecondRunTouchesNothing ==
    /\ last'.opened = <<>>
    /\ tables' = tables
    /\ log' = log

\* The second run leaves every table and appends one "Parsed" entry for each
\* feed file of the directory.
SecondRunOnlyLogs ==
    /\ tables' = tables
    /\ Len(log') >= Len(log)
    /\ SubSeq(log', 1, Len(log)) = log
    /\ Len(AddedMessages) = Cardinality(FeedNames(disk))
    /\ \A f \in FeedNames(disk) : InSeq(s_Parsed \o f, AddedMessages)

\* C36: after a directory run that completed without error, a second run
\* with reparse=False on the same directory is a complete no-op: it returns
\* having opened no file, written no row and appended no log entry; with
\* reparse=True it returns with the rows unchanged and one more "Parsed"
\* entry for each feed file.
C36_SecondRunAddsNoRow ==
    [][RunAfterCompletedRun =>
          /\ last'.exc = "none"
          /\ IF last'.reparse THEN SecondRunOnlyLogs ELSE SecondRunTouchesNothing
      ]_vars

(***************************************************************************)
(* SpecStale: a remote test that could not tell.                           *)
(***************************************************************************)
\* The call gets as far as the remote test: the file is there and no log
\* entry is consulted or none is found.
AsksRemote ==
    /\ basename(input.fname) \in DOMAIN disk
    /\ ~(input.check_log /\ HasDownloadedEntry(log, input.fname))

\* The remote test returns False.
RemoteSaysNotStale ==
    /\ AsksRemote
    /\ LET s == IF startswith(input.url, s_ftp)
                THEN fname_is_stale_ftp(disk, input.fname, input.remote)
                ELSE fname_is_stale_http(disk, input.fname, input.remote)
       IN  s.exc = "none" /\ ~s.stale

\* The HEAD request over http is answered with a status other than 200.
HeadRequestFails ==
    /\ AsksRemote
    /\ startswith(input.url, s_http)
    /\ input.remote.status # "ok"

\* C37: whenever the remote test returns False, and so when the HEAD request
\* over http is answered with a status other than 200, fname_is_stale
\* returns False and appends the entry "Downloaded <basename>", and
\* dload_if_stale then leaves the file; every later call with check_log
\* returns False without asking the remote end, whatever it would answer.
C37_UncheckedFileIsLoggedAsDownloaded ==
    [][(/\ output'.op \in {"fname_is_stale", "dload_if_stale"}
        /\ (RemoteSaysNotStale \/ HeadRequestFails))
       => /\ output'.exc = "none"
          /\ output'.ret = FALSE
          /\ disk' = disk
          /\ log' = Append(log, LogEntry(now, s_Downloaded \o basename(input.fname)))
          /\ \A scheme \in {s_ftp, s_http} : \A remote \in Remotes :
                LET again == fname_is_stale(disk', log', now', s_nightly, input.fname,
                                            Pair(scheme, n_feed2).url, TRUE, remote)
                IN  again.exc = "none" /\ ~again.stale /\ again.log = log'
      ]_vars

\* C37, its case: fname_is_stale without check_log asked an http server
\* that is down about the file on disk; it returned False and the log, empty
\* before, holds the entry "Downloaded FBOFeed2".
C37_Witness ==
    /\ output # NotCalled
    /\ output.op = "fname_is_stale"
    /\ output.exc = "none"
    /\ output.ret = FALSE
    /\ ~input.check_log
    /\ startswith(input.url, s_http)
    /\ input.remote.status = "down"
    /\ disk = (n_feed2 :> feed_overlap)
    /\ log = <<LogEntry(0, s_Downloaded \o n_feed2)>>

(***************************************************************************)
(* SpecDedupe: a sweep changes no content, and a second sweep nothing.     *)
(***************************************************************************)
\* The distinct contents of the rows, the rowid left out as SELECT * does.
Contents(rows) == {rows[i].cols : i \in 1..Len(rows)}

\* No two rows of the table are equal in every column.
NoIdenticalRows(rows) ==
    \A i, j \in 1..Len(rows) : rows[i].cols = rows[j].cols => i = j

\* C38: dedupe on a table without two identical rows deletes nothing; a
\* sweep leaves the set of distinct row contents as it was; and a second
\* sweep right after a first changes nothing.
C38_DedupeIdempotentKeepsContents ==
    output # NotCalled =>
        /\ NoIdenticalRows(input) => output.rows = input
        /\ Contents(output.rows) = Contents(input)
        /\ dedupe(output.rows) = output.rows
        /\ NoIdenticalRows(output.rows)

\* C38, its case: a table of one row three times and another row once has
\* been swept down to two rows, the last copy and the other row, and holds
\* the two contents it held before.
C38_Witness ==
    /\ output # NotCalled
    /\ Len(input) = 4
    /\ input[1].cols = input[2].cols
    /\ input[2].cols = input[4].cols
    /\ input[3].cols # input[1].cols
    /\ output.rows = <<input[3], input[4]>>
    /\ Cardinality(Contents(input)) = 2

=============================================================================
